---- MODULE Spec2Model ----
(***************************************************************************)
(* Model of the Mikup DSP core (ui/src-tauri/src): the streaming command   *)
(* stream_audio_metrics with its generation-based cancellation, the        *)
(* solo/mute arbitration of the multi-stem decoder and its gain ramp, the  *)
(* synchronised reading of the five stems, the set_stem_state command and  *)
(* the queue of the audio output player and the offline loudness scanner.  *)
(*                                                                         *)
(* The module holds several specifications over one set of variables:      *)
(*   Spec        the streaming commands and their workers (lib.rs)         *)
(*   FairSpec    Spec with weak fairness of every worker thread            *)
(*   FlagSpec    AudioFrameStemFlags::from_map, StemTargetGains::from_flags*)
(*   GainSpec    apply_gain_step / apply_gain_ramp                         *)
(*   DecoderSpec MikupAudioDecoder over stems of any lengths               *)
(*   RampSpec    MikupAudioDecoder while set_stem_state changes the flags  *)
(*   SetSpec     the set_stem_state command                                *)
(*   SnapSpec    read_frame step by step against set_stem_state            *)
(*   StreamDecoderSpec  a streaming worker over a MikupAudioDecoder        *)
(*   TimeSpec    the start time of a stream and of a seek                  *)
(*   PlayerSpec  AudioOutputPlayer: its producer and the device callback   *)
(*   BlockingSpec  push_interleaved_blocking against the device callback   *)
(*   DrainSpec   mark_producer_finished and wait_until_drained_or_cancel   *)
(*   AudioSpec   a streaming worker pushing into its AudioOutputPlayer     *)
(*   ScanSpec    OfflineLoudnessScanner::scan and its stem workers         *)
(*   ScanFairSpec  the same, the calling thread weakly fair                *)
(*   StemScanSpec  OfflineLoudnessScanner::scan_stem over one stem         *)
(* Each specification leaves the other groups of variables at their        *)
(* initial value.                                                          *)
(***************************************************************************)
EXTENDS Integers, Sequences, FiniteSets, TLC

VARIABLES
    \* ---- streaming (lib.rs) ----
    stream_generation,            \* the shared Arc<AtomicU64>
    pc,                           \* per stream: where its worker is
    my_gen,                       \* per stream: the generation it captured
    frame_index,                  \* per stream: local frame_index
    last_emit,                    \* per stream: TRUE iff last_emit is Some(_)
    eof_natural,                  \* per stream: local eof_natural
    alignment_mismatch_detected,  \* per stream: the decoder's sticky flag
    events,                       \* per stream: the events its worker emitted
    loop_exit,                    \* per stream: how the worker left its loop
    stopped,                      \* per stream: whether stop_dsp_stream has
                                  \*   returned while its worker was running,
                                  \*   and where the worker was then
    \* ---- stem flags (dsp/mod.rs) ----
    stem_states,                  \* the HashMap<String, StemState>
    stem_flags,                   \* the snapshot taken by process_frame
    target_gains,                 \* StemTargetGains of that snapshot
    \* ---- gain ramp (dsp/mod.rs) ----
    current_gain,                 \* one stem's runtime gain
    target_gain,                  \* its target gain
    step,                         \* gain_step_per_sample
    previous_gain,                \* the gain before the last call
    buffer,                       \* the samples the last call returned
    last_call,                    \* "none", "step" or "ramp"
    \* ---- MikupAudioDecoder (dsp/mod.rs) ----
    stems,                        \* the five StemStreamDecoders
    stem_runtime_gains,           \* StemRuntimeGains, in units of the step
    decoder_mismatch,             \* alignment_mismatch_detected
    ret,                          \* the last call and what it returned
    frames_returned,              \* Some(frame) results of read_frame so far
    ended,                        \* read_frame returned None since the last seek
    reads_only,                   \* every call so far was a read_frame that
                                  \*   returned Ok
    held,                         \* samples processed since the target gains
                                  \*   last changed, capped at FadeSamples
    set_result,                   \* the last set_stem_state call and its result
    \* ---- read_frame step by step (dsp/mod.rs) ----
    frame_pc,                     \* where a read_frame call in progress is
    frame_buffers,                \* its five buffers
    snap_calls,                   \* the set_stem_state calls that had returned
                                  \*   when it took its snapshot
    \* ---- start times (lib.rs) ----
    bad_start,                    \* the last stream_audio_metrics call was given
                                  \*   a start_time that is negative or not finite
    \* ---- audio output (dsp/player.rs) ----
    queue,                        \* the ArrayQueue<f32>, oldest sample first
    capacity,                     \* AudioOutputPlayer.capacity
    producer,                     \* the producer thread: the call it is in, the
                                  \*   slice it was given and its position in it
    callback,                     \* the device callback: whether it runs and the
                                  \*   output elements it has still to write
    underrun_samples,             \* the AtomicU64 underrun counter
    producer_finished,            \* the AtomicBool producer_finished
    drained,                      \* the AtomicBool drained
    cancel,                       \* the AtomicBool `cancel` of the caller
    \* ---- offline scan (dsp/scanner.rs, lib.rs) ----
    scan,                         \* the thread calling scan: where it is, its
                                  \*   stem_paths, profiles and result
    scan_workers,                 \* per stem: the thread spawned for it
    channel,                      \* the mpsc channel: events sent, not received
    delivered,                    \* per stem: the events handed to on_event
    stem_scan,                    \* the locals of one scan_stem call
    resolve,                      \* one resolve_required_stems call
    \* ---- lissajous points (lib.rs) ----
    lissajous,                    \* the points of one frame and those emitted
    \* ---- linear resampler (dsp/mod.rs, dsp/player.rs) ----
    resampler,                    \* residual and position of one resampler
    \* ---- one StemStreamDecoder with its packets (dsp/mod.rs) ----
    stem_decoder                  \* reader, queue, resampler and eof flag

streamVars == <<stream_generation, pc, my_gen, frame_index, last_emit,
                eof_natural, alignment_mismatch_detected, events, loop_exit,
                stopped>>
flagVars == <<stem_states, stem_flags, target_gains>>
gainVars == <<current_gain, target_gain, step, previous_gain, buffer,
             last_call>>
decoderVars == <<stems, stem_runtime_gains, decoder_mismatch, ret,
                 frames_returned, ended, reads_only, held>>
snapVars == <<frame_pc, frame_buffers, snap_calls>>
playerVars == <<queue, capacity, producer, callback, underrun_samples,
                producer_finished, drained, cancel>>
scanVars == <<scan, scan_workers, channel, delivered>>
calcVars == <<resolve, lissajous, resampler, stem_decoder>>
vars == <<streamVars, flagVars, gainVars, decoderVars, set_result, snapVars,
          bad_start, playerVars, scanVars, stem_scan, calcVars>>

\* What the actions of one group leave alone.
notStreamVars == <<flagVars, gainVars, decoderVars, set_result, snapVars,
                   bad_start, playerVars,
        scanVars, stem_scan, calcVars>>
notFlagVars == <<streamVars, gainVars, decoderVars, set_result, snapVars,
                 bad_start, playerVars,
        scanVars, stem_scan, calcVars>>
notGainVars == <<streamVars, flagVars, decoderVars, set_result, snapVars,
                 bad_start, playerVars,
        scanVars, stem_scan, calcVars>>
notDecoderVars == <<streamVars, gainVars, set_result, snapVars, bad_start,
                    playerVars,
        scanVars, stem_scan, calcVars>>
notSetVars == <<streamVars, gainVars, decoderVars, snapVars, bad_start,
                playerVars,
        scanVars, stem_scan, calcVars>>
notSnapVars == <<streamVars, gainVars, set_result, bad_start, playerVars,
        scanVars, stem_scan, calcVars>>
notPlayerVars == <<streamVars, flagVars, gainVars, decoderVars, set_result,
                   snapVars, bad_start,
        scanVars, stem_scan, calcVars>>

(***************************************************************************)
(* Bounds of the model.                                                    *)
(***************************************************************************)
MaxStreams == 2     \* start_stream calls that spawn a worker
MaxGen == 2         \* cap of the generation counter (starts + stops)
MaxFrames == 3      \* frames read_frame delivers, over all streams
GainOne == 4        \* the gain 1.0 in units of the fixed-point grid
MaxStep == 3        \* largest gain step, in the same units
MaxBuffer == 3      \* longest buffer given to apply_gain_ramp

Streams == 1..MaxStreams

(***************************************************************************)
(* Streaming: stop_dsp_stream and stream_audio_metrics.                    *)
(*                                                                         *)
(* The AtomicU64 is read and written atomically; fetch_add is one step.    *)
(* The Relaxed load of the worker reads the current value of the counter.  *)
(* An emitted event is appended to the log of the stream: app.emit's       *)
(* result is ignored by the code (`let _ = app.emit(..)`).                 *)
(***************************************************************************)
\* after_stop records whether stop_dsp_stream had returned, while this worker
\* was running, before the event was emitted.
\* A time in seconds, num / den. Events other than dsp-frame carry none.
NoTimestamp == [num |-> 0, den |-> 0]

Event(e, v, late) ==
    [event |-> e, value |-> v, after_stop |-> late, timestamp_secs |-> NoTimestamp]

Emit(w, e, v) ==
    [events EXCEPT ![w] = Append(@, Event(e, v, stopped[w] # "no"))]

DSP_FRAME_SIZE == 2048
DSP_SAMPLE_RATE == 48000

\* The timestamp taken from the frame_index already incremented.
timestamp_of_next(index) ==
    [num |-> (index + 1) * DSP_FRAME_SIZE, den |-> DSP_SAMPLE_RATE]

\* `frame_index as f32 * frame_size as f32 / sample_rate as f32` (lib.rs 869),
\* computed before `frame_index += 1`; frame_size and sample_rate are those
\* the decoder was made with (lib.rs 816-817, 824-825). The quotient is kept
\* exact.
timestamp_secs(index) ==
    [num |-> index * DSP_FRAME_SIZE, den |-> DSP_SAMPLE_RATE]

\* The dsp-frame event of the payload (lib.rs 919-940).
EmitFrame(w, index, timestamp) ==
    [events EXCEPT ![w] = Append(@,
        [Event("dsp-frame", index, stopped[w] # "no")
            EXCEPT !.timestamp_secs = timestamp])]

\* stop_dsp_stream without the increment.
StopGenerationNoAdd(g) == g

\* stop_dsp_stream: stream_generation.fetch_add(1): the counter's new value.
StopGeneration(g) == g + 1

\* stream_audio_metrics reading the counter without incrementing it.
StartGenerationNoAdd(g) == g

\* stream_audio_metrics: stream_generation.fetch_add(1) + 1: the new value of
\* the counter, which is also the value the stream captures as my_gen.
StartGeneration(g) == g + 1

\* The loop's test written `load < my_gen`: a newer generation is not noticed.
GenMatchesIgnoringNewer(w) == stream_generation >= my_gen[w]

\* The loop's test `stream_gen_arc.load(Relaxed) != my_gen`, negated.
GenMatches(w) == stream_generation = my_gen[w]

\* frame_index left as it is.
NextFrameIndexStuck(i) == i

\* frame_index += 1
NextFrameIndex(i) == i + 1

\* total_frames counting the dsp-frame events emitted.
total_frames_emitted(w) ==
    Len(SelectSeq(events[w], LAMBDA e : e.event = "dsp-frame"))

\* `total_frames: frame_index` of DspCompletePayload
total_frames(w) == frame_index[w]

\* dsp-complete emitted whenever the loop is left.
EmitsCompleteAlways(w) == TRUE

\* dsp-complete never emitted.
EmitsCompleteNever(w) == FALSE

\* `if eof_natural { emit("dsp-complete") }`
EmitsComplete(w) == eof_natural[w]

\* `break` instead of `return Err(..)` after emitting dsp-error.
PcAfterErrorBreak == "after_loop"

\* `return Err(e.to_string())` after emitting dsp-error: the worker is done.
PcAfterError == "done"

Running(w) == pc[w] \notin {"idle", "done"}

RECURSIVE SumTo(_, _)
SumTo(f, n) == IF n = 0 THEN 0 ELSE f[n] + SumTo(f, n - 1)

\* Frames delivered so far by the decoders of all streams.
FramesRead ==
    SumTo([w \in Streams |-> frame_index[w] + (IF pc[w] \in {"analyse", "emit"} THEN 1 ELSE 0)],
          MaxStreams)

StreamInit ==
    /\ stream_generation = 0
    /\ pc = [w \in Streams |-> "idle"]
    /\ my_gen = [w \in Streams |-> 0]
    /\ frame_index = [w \in Streams |-> 0]
    /\ last_emit = [w \in Streams |-> FALSE]
    /\ eof_natural = [w \in Streams |-> FALSE]
    /\ alignment_mismatch_detected = [w \in Streams |-> FALSE]
    /\ events = [w \in Streams |-> <<>>]
    /\ loop_exit = [w \in Streams |-> "none"]
    /\ stopped = [w \in Streams |-> "no"]

\* stop_dsp_stream (lib.rs 737-743).
StopDspStream ==
    /\ stream_generation < MaxGen
    /\ stream_generation' = StopGeneration(stream_generation)
    /\ stopped' = [w \in Streams |->
                     IF Running(w) /\ stopped[w] = "no"
                     THEN (IF pc[w] \in {"spawned", "check"}
                           THEN "before_check" ELSE "in_iteration")
                     ELSE stopped[w]]
    /\ UNCHANGED <<pc, my_gen, frame_index, last_emit, eof_natural,
                   alignment_mismatch_detected, events, loop_exit>>

\* stream_audio_metrics up to spawn_blocking (lib.rs 780-808). `valid` is the
\* outcome of ensure_safe_argument and of the start_time test: when it fails
\* the command returns Err before touching the counter.
StreamAudioMetrics(w, valid) ==
    /\ pc[w] = "idle"
    /\ \A v \in Streams : v < w => pc[v] # "idle"
    /\ stream_generation < MaxGen
    /\ IF valid
       THEN /\ stream_generation' = StartGeneration(stream_generation)
            /\ my_gen' = [my_gen EXCEPT ![w] = StartGeneration(stream_generation)]
            /\ pc' = [pc EXCEPT ![w] = "spawned"]
       ELSE UNCHANGED <<stream_generation, my_gen, pc>>
    /\ UNCHANGED <<frame_index, last_emit, eof_natural,
                   alignment_mismatch_detected, events, loop_exit,
                   stopped>>

\* The worker before its loop (lib.rs 809-850): MikupAudioDecoder::new, seek,
\* LoudnessAnalyzer::new; any of them failing returns Err with no event. The
\* audio player is optional and its failure is not fatal.
WorkerSetup(w, ok) ==
    /\ pc[w] = "spawned"
    /\ pc' = [pc EXCEPT ![w] = IF ok THEN "check" ELSE "done"]
    /\ frame_index' = [frame_index EXCEPT ![w] = 0]
    /\ last_emit' = [last_emit EXCEPT ![w] = FALSE]
    /\ eof_natural' = [eof_natural EXCEPT ![w] = FALSE]
    /\ UNCHANGED <<stream_generation, my_gen, alignment_mismatch_detected,
                   events, loop_exit, stopped>>

\* The generation check at the top of the loop (lib.rs 853-855).
WorkerCheck(w) ==
    /\ pc[w] = "check"
    /\ IF GenMatches(w)
       THEN /\ pc' = [pc EXCEPT ![w] = "read"]
            /\ UNCHANGED loop_exit
       ELSE /\ pc' = [pc EXCEPT ![w] = "after_loop"]
            /\ loop_exit' = [loop_exit EXCEPT ![w] = "generation"]
    /\ UNCHANGED <<stream_generation, my_gen, frame_index, last_emit,
                   eof_natural, alignment_mismatch_detected, events,
                   stopped>>

\* decoder.read_frame() (lib.rs 857-867). outcome is "some", "none" or "err";
\* mismatch: whether this read_frame popped stems of unequal length.
WorkerRead(w, outcome, mismatch) ==
    /\ pc[w] = "read"
    /\ outcome = "some" => FramesRead < MaxFrames
    /\ outcome # "some" => ~mismatch
    /\ CASE outcome = "some" ->
              /\ pc' = [pc EXCEPT ![w] = "analyse"]
              /\ alignment_mismatch_detected' =
                    [alignment_mismatch_detected EXCEPT ![w] = @ \/ mismatch]
              /\ UNCHANGED <<eof_natural, events, loop_exit>>
         [] outcome = "none" ->
              /\ pc' = [pc EXCEPT ![w] = "after_loop"]
              /\ eof_natural' = [eof_natural EXCEPT ![w] = TRUE]
              /\ loop_exit' = [loop_exit EXCEPT ![w] = "eof"]
              /\ UNCHANGED <<alignment_mismatch_detected, events>>
         [] outcome = "err" ->
              /\ events' = Emit(w, "dsp-error", 0)
              /\ pc' = [pc EXCEPT ![w] = PcAfterError]
              /\ loop_exit' = [loop_exit EXCEPT ![w] = "read_error"]
              /\ UNCHANGED <<eof_natural, alignment_mismatch_detected>>
    /\ UNCHANGED <<stream_generation, my_gen, frame_index, last_emit,
                   stopped>>

\* loudness.process_frame, then the spatial and spectral analysers and the
\* non-blocking push to the audio player (lib.rs 869-895).
WorkerAnalyse(w, ok) ==
    /\ pc[w] = "analyse"
    /\ IF ok
       THEN /\ pc' = [pc EXCEPT ![w] = "emit"]
            /\ UNCHANGED <<events, loop_exit>>
       ELSE /\ events' = Emit(w, "dsp-error", 0)
            /\ pc' = [pc EXCEPT ![w] = PcAfterError]
            /\ loop_exit' = [loop_exit EXCEPT ![w] = "loudness_error"]
    /\ UNCHANGED <<stream_generation, my_gen, frame_index, last_emit,
                   eof_natural, alignment_mismatch_detected, stopped>>

\* frame_index += 1, the throttle and the dsp-frame event (lib.rs 897-941).
\* elapsed: whether min_interval has elapsed since the last emitted frame.
WorkerEmit(w, elapsed) ==
    /\ pc[w] = "emit"
    /\ frame_index' = [frame_index EXCEPT ![w] = NextFrameIndex(@)]
    /\ LET should_emit == IF last_emit[w] THEN elapsed ELSE TRUE
       IN IF should_emit
          THEN /\ last_emit' = [last_emit EXCEPT ![w] = TRUE]
               /\ events' = EmitFrame(w, frame_index'[w],
                                       timestamp_secs(frame_index[w]))
          ELSE UNCHANGED <<last_emit, events>>
    /\ pc' = [pc EXCEPT ![w] = "check"]
    /\ UNCHANGED <<stream_generation, my_gen, eof_natural,
                   alignment_mismatch_detected, loop_exit, stopped>>

\* After the loop: mark_producer_finished and the stem-length-mismatch
\* warning (lib.rs 943-957).
WorkerAfterLoop(w) ==
    /\ pc[w] = "after_loop"
    /\ events' = IF alignment_mismatch_detected[w]
                 THEN Emit(w, "DSP_WARNING", 0) ELSE events
    /\ pc' = [pc EXCEPT ![w] = "complete"]
    /\ UNCHANGED <<stream_generation, my_gen, frame_index, last_emit,
                   eof_natural, alignment_mismatch_detected, loop_exit,
                   stopped>>

\* The completion event and the return (lib.rs 959-974).
WorkerComplete(w) ==
    /\ pc[w] = "complete"
    /\ events' = IF EmitsComplete(w)
                 THEN Emit(w, "dsp-complete", total_frames(w)) ELSE events
    /\ pc' = [pc EXCEPT ![w] = "done"]
    /\ UNCHANGED <<stream_generation, my_gen, frame_index, last_emit,
                   eof_natural, alignment_mismatch_detected, loop_exit,
                   stopped>>

\* One step of the worker thread of stream w.
WorkerStep(w) ==
    \/ \E ok \in BOOLEAN : WorkerSetup(w, ok)
    \/ WorkerCheck(w)
    \/ \E outcome \in {"some", "none", "err"}, mismatch \in BOOLEAN :
          WorkerRead(w, outcome, mismatch)
    \/ \E ok \in BOOLEAN : WorkerAnalyse(w, ok)
    \/ \E elapsed \in BOOLEAN : WorkerEmit(w, elapsed)
    \/ WorkerAfterLoop(w)
    \/ WorkerComplete(w)

(***************************************************************************)
(* Stem flags: AudioFrameStemFlags and StemTargetGains (dsp/mod.rs).       *)
(*                                                                         *)
(* The stem-state map is a function from the keys it holds to StemState    *)
(* records. A target gain is 0 (0.0) or 1 (1.0). The RwLock is never       *)
(* poisoned: its only writer, set_stem_state, holds it for one insert.     *)
(***************************************************************************)
STEM_IDS == {"dx", "music", "sfx", "foley", "ambience"}

StemState == [is_solo : BOOLEAN, is_muted : BOOLEAN]

\* StemState::default()
DefaultStemState == [is_solo |-> FALSE, is_muted |-> FALSE]

\* A key the map does not hold read as a muted stem.
from_map_missing_muted(map) ==
    [s \in STEM_IDS |->
        IF s \in DOMAIN map THEN map[s] ELSE [is_solo |-> FALSE, is_muted |-> TRUE]]

\* AudioFrameStemFlags::from_map: map.get(id).unwrap_or(default) per stem.
from_map(map) ==
    [s \in STEM_IDS |-> IF s \in DOMAIN map THEN map[s] ELSE DefaultStemState]

\* AudioFrameStemFlags::any_solo
any_solo(flags) ==
    \/ flags["dx"].is_solo
    \/ flags["music"].is_solo
    \/ flags["sfx"].is_solo
    \/ flags["foley"].is_solo
    \/ flags["ambience"].is_solo

\* The closure with the mute test first: a muted stem is silent even if solo.
gain_for_mute_first(solo, stem) ==
    IF stem.is_muted THEN 0
    ELSE IF solo THEN (IF stem.is_solo THEN 1 ELSE 0)
    ELSE 1

\* The closure gain_for of StemTargetGains::from_flags.
gain_for(solo, stem) ==
    IF solo THEN (IF stem.is_solo THEN 1 ELSE 0)
    ELSE IF stem.is_muted /\ ~stem.is_solo THEN 0
    ELSE 1

\* StemTargetGains::from_flags
from_flags(flags) ==
    LET solo == any_solo(flags)
    IN [dx |-> gain_for(solo, flags["dx"]),
        music |-> gain_for(solo, flags["music"]),
        foley |-> gain_for(solo, flags["foley"]),
        sfx |-> gain_for(solo, flags["sfx"]),
        ambience |-> gain_for(solo, flags["ambience"])]

\* The maps a caller can hand to MikupAudioDecoder::new: any subset of the
\* stem ids, each with any flags.
StemStateMaps == UNION {[D -> StemState] : D \in SUBSET STEM_IDS}

FlagIdle ==
    /\ stem_states = <<>>
    /\ stem_flags = <<>>
    /\ target_gains = <<>>

FlagInit ==
    /\ stem_states \in StemStateMaps
    /\ stem_flags = <<>>
    /\ target_gains = <<>>

\* The first two statements of process_frame: snapshot_stem_flags and
\* StemTargetGains::from_flags.
ProcessFrameTargets ==
    /\ stem_flags' = from_map(stem_states)
    /\ target_gains' = from_flags(from_map(stem_states))
    /\ UNCHANGED stem_states

(***************************************************************************)
(* Gain ramp: apply_gain_step and apply_gain_ramp (dsp/mod.rs).            *)
(*                                                                         *)
(* Gains and steps are integers, in units of 1/GainOne; the arithmetic of  *)
(* the code is taken as exact. A sample is a whole number, so the product  *)
(* of a sample and a gain is again in gain units.                          *)
(***************************************************************************)
Abs(x) == IF x < 0 THEN 0 - x ELSE x

Max(a, b) == IF a >= b THEN a ELSE b

\* f32::signum: 1.0 for a positive number and +0.0, -1.0 otherwise.
Signum(x) == IF x >= 0 THEN 1 ELSE -1

\* apply_gain_step without the snap to the target.
apply_gain_step_no_snap(sample, current, target, st) ==
    LET gain == current + st * Signum(target - current)
    IN [gain |-> gain, sample |-> sample * gain]

\* apply_gain_step moving by two steps when it does not snap.
apply_gain_step_two_steps(sample, current, target, st) ==
    LET delta == target - current
        gain == IF Abs(delta) <= st THEN target ELSE current + 2 * st * Signum(delta)
    IN [gain |-> gain, sample |-> sample * gain]

\* apply_gain_step: the new gain and the returned sample.
apply_gain_step(sample, current, target, st) ==
    LET delta == target - current
        gain == IF Abs(delta) <= st THEN target ELSE current + st * Signum(delta)
    IN [gain |-> gain, sample |-> sample * gain]

\* The loop of apply_gain_ramp over the samples from position i on.
RECURSIVE GainRampLoop(_, _, _, _, _)
GainRampLoop(buf, i, current, target, st) ==
    IF i > Len(buf)
    THEN [gain |-> current, buffer |-> buf]
    ELSE LET delta == target - current
             gain == IF Abs(delta) <= st THEN target
                     ELSE current + st * Signum(delta)
         IN GainRampLoop([buf EXCEPT ![i] = @ * gain], i + 1, gain, target, st)

\* apply_gain_ramp: an empty buffer sets the gain to the target.
apply_gain_ramp(buf, current, target, st) ==
    IF buf = <<>>
    THEN [gain |-> target, buffer |-> buf]
    ELSE GainRampLoop(buf, 1, current, target, st)

Gains == (0 - 1)..(GainOne + 1)

\* Buffers of unit samples: the returned buffer is then the gain applied to
\* each sample.
UnitBuffers == {[i \in 1..n |-> 1] : n \in 0..MaxBuffer}

GainIdle ==
    /\ current_gain = 0
    /\ target_gain = 0
    /\ step = 1
    /\ previous_gain = 0
    /\ buffer = <<>>
    /\ last_call = "none"

GainInit ==
    /\ current_gain \in Gains
    /\ target_gain \in Gains
    /\ step \in 1..MaxStep
    /\ previous_gain = current_gain
    /\ buffer = <<>>
    /\ last_call = "none"

\* One call of apply_gain_step, as sum_background_stems makes per sample.
ApplyGainStep(sample) ==
    LET r == apply_gain_step(sample, current_gain, target_gain, step)
    IN /\ previous_gain' = current_gain
       /\ current_gain' = r.gain
       /\ buffer' = <<r.sample>>
       /\ last_call' = "step"
       /\ UNCHANGED <<target_gain, step>>

\* One call of apply_gain_ramp, as process_frame makes for the dialogue stem.
ApplyGainRamp(buf) ==
    LET r == apply_gain_ramp(buf, current_gain, target_gain, step)
    IN /\ previous_gain' = current_gain
       /\ current_gain' = r.gain
       /\ buffer' = r.buffer
       /\ last_call' = "ramp"
       /\ UNCHANGED <<target_gain, step>>

(***************************************************************************)
(* The multi-stem decoder: StemStreamDecoder and MikupAudioDecoder         *)
(* (dsp/mod.rs).                                                           *)
(*                                                                         *)
(* A stem's file holds `len` samples at the engine rate, delivered by the  *)
(* format reader in packets of PacketLen samples (the last one shorter);   *)
(* the resampler is in passthrough. The value of a sample is its position  *)
(* in the stem, from 1 on, so that no sample of a file is zero and every   *)
(* sample is told from every other. A runtime gain is a whole number of    *)
(* steps: the gain 1.0 is UnitGain = FadeSamples steps.                    *)
(***************************************************************************)
FrameSize == 2            \* frame_size (DSP_FRAME_SIZE is 2048)
PacketLen == 3            \* samples of one decoded packet
MaxSamples == 3           \* longest stem, in samples at the engine rate
TargetSampleRate == 600   \* target_sample_rate (DSP_SAMPLE_RATE is 48000)
MaxWrites == 2            \* set_stem_state calls in one behaviour
MaxWanted == 2            \* largest ceil(rate * channels * buffer_seconds)
MinFrames == 1            \* the 512 frames a queue holds at least, scaled
MaxSlice == 3             \* longest slice given to a push
MaxData == 2              \* longest output buffer of one device callback
MaxUnderruns == 2         \* cap of the underrun counter

STEM_FADE_MS == 5

\* The order in which read_frame and seek go through the stems.
StemOrder == <<"dx", "music", "foley", "sfx", "ambience">>

StemIndex(s) == CHOOSE i \in DOMAIN StemOrder : StemOrder[i] = s

Min(a, b) == IF a <= b THEN a ELSE b

\* f32::round of the quotient of two positive whole numbers: half away from
\* zero.
RoundDiv(a, b) == (2 * a + b) \div (2 * b)

\* fade_samples of MikupAudioDecoder::new
fade_samples(rate) == Max(RoundDiv(rate * STEM_FADE_MS, 1000), 1)

FadeSamples == fade_samples(TargetSampleRate)

\* The gain 1.0 in steps.
UnitGain == FadeSamples

\* gain_step_per_sample: 1.0 / fade_samples
gain_step_per_sample == UnitGain \div FadeSamples

\* The samples of a stem from position pos + 1 to pos + n.
Decoded(pos, n) == [i \in 1..n |-> pos + i]

Zeros(n) == [i \in 1..n |-> 0]

\* StemStreamDecoder::open: nothing decoded yet.
OpenStem(len) == [len |-> len, pos |-> 0, pending_samples |-> <<>>, eof |-> FALSE]

\* The loop condition asking for a packet only while nothing is pending.
NeedsPacketWhenEmpty(st, minimum_samples) ==
    st.pending_samples = <<>> /\ minimum_samples > 0 /\ ~st.eof

\* The loop condition of fill_until: another packet is asked for.
NeedsPacket(st, minimum_samples) ==
    Len(st.pending_samples) < minimum_samples /\ ~st.eof

\* StemStreamDecoder::fill_until when no packet fails: packets are decoded
\* until the queue holds minimum_samples or the reader reports the end.
RECURSIVE fill_until(_, _)
fill_until(st, minimum_samples) ==
    IF NeedsPacket(st, minimum_samples)
    THEN IF st.pos = st.len
         THEN [st EXCEPT !.eof = TRUE]
         ELSE LET n == Min(PacketLen, st.len - st.pos)
              IN fill_until([st EXCEPT !.pending_samples = @ \o Decoded(st.pos, n),
                                       !.pos = @ + n],
                            minimum_samples)
    ELSE st

\* pop_frame taking every pending sample.
pop_frame_all(st, frame_size) ==
    [stem |-> [st EXCEPT !.pending_samples = <<>>], samples |-> st.pending_samples]

\* pop_frame returning the head of the queue without removing it.
pop_frame_peek(st, frame_size) ==
    [stem |-> st,
     samples |-> SubSeq(st.pending_samples, 1, Min(Len(st.pending_samples), frame_size))]

\* StemStreamDecoder::pop_frame: the stem after the call and the samples.
pop_frame(st, frame_size) ==
    LET take == Min(Len(st.pending_samples), frame_size)
    IN [stem |-> [st EXCEPT !.pending_samples =
                      SubSeq(@, take + 1, Len(@))],
        samples |-> SubSeq(st.pending_samples, 1, take)]

\* is_finished looking at the end of the file only.
is_finished_at_eof(st) == st.eof

\* StemStreamDecoder::is_finished
is_finished(st) == st.eof /\ st.pending_samples = <<>>

\* StemStreamDecoder::drain_remaining
drain_remaining(st) ==
    [stem |-> [st EXCEPT !.pending_samples = <<>>], samples |-> st.pending_samples]

\* StemStreamDecoder::seek to sample position `position`: the queue and the
\* end flag are reset first; format.seek then succeeds or fails.
seek_stem(st, position, ok) ==
    [st EXCEPT !.pending_samples = <<>>,
               !.eof = FALSE,
               !.pos = IF ok THEN Min(position, st.len) ELSE @]

\* Vec::resize leaving a shorter buffer as it is.
resize_no_pad(buf, new_len) == SubSeq(buf, 1, Min(Len(buf), new_len))

\* Vec::resize(new_len, 0.0)
resize(buf, new_len) ==
    IF Len(buf) >= new_len THEN SubSeq(buf, 1, new_len)
    ELSE buf \o Zeros(new_len - Len(buf))

\* The longest of the five buffers.
MaxLenOf(bufs) ==
    Max(Max(Max(Max(Len(bufs["dx"]), Len(bufs["music"])), Len(bufs["foley"])),
            Len(bufs["sfx"])), Len(bufs["ambience"]))

\* The mismatch test never true.
PoppedMismatchNever(bufs) == FALSE

\* The mismatch test of read_frame on the popped buffers.
PoppedMismatch(bufs) ==
    LET max_len == MaxLenOf(bufs)
    IN max_len > 0 /\ \E s \in STEM_IDS : Len(bufs[s]) < max_len

\* buf.get(i).copied().unwrap_or(0.0)
GetOrZero(buf, i) == IF i <= Len(buf) THEN buf[i] ELSE 0

\* if let Some(slot) = buf.get_mut(i) { *slot = value }
SetIfPresent(buf, i, value) ==
    IF i <= Len(buf) THEN [buf EXCEPT ![i] = value] ELSE buf

\* The loop of sum_background_stems from sample i on. b holds the four
\* background buffers, g the runtime gains, t the target gains.
RECURSIVE BackgroundLoop(_, _, _, _, _, _, _)
BackgroundLoop(b, mixed, i, len, g, t, st) ==
    IF i > len
    THEN [buffers |-> b, mixed |-> mixed, gains |-> g]
    ELSE LET m == apply_gain_step(GetOrZero(b["music"], i), g["music"], t["music"], st)
             f == apply_gain_step(GetOrZero(b["foley"], i), g["foley"], t["foley"], st)
             x == apply_gain_step(GetOrZero(b["sfx"], i), g["sfx"], t["sfx"], st)
             a == apply_gain_step(GetOrZero(b["ambience"], i), g["ambience"], t["ambience"], st)
         IN BackgroundLoop(
               [b EXCEPT !["music"] = SetIfPresent(@, i, m.sample),
                         !["foley"] = SetIfPresent(@, i, f.sample),
                         !["sfx"] = SetIfPresent(@, i, x.sample),
                         !["ambience"] = SetIfPresent(@, i, a.sample)],
               Append(mixed, m.sample + f.sample + x.sample + a.sample),
               i + 1, len,
               [g EXCEPT !["music"] = m.gain, !["foley"] = f.gain,
                         !["sfx"] = x.gain, !["ambience"] = a.gain],
               t, st)

\* sum_background_stems
sum_background_stems(b, g, t, st) ==
    LET len == Max(Max(Max(Len(b["music"]), Len(b["foley"])), Len(b["sfx"])),
                   Len(b["ambience"]))
    IN BackgroundLoop(b, <<>>, 1, len, g, t, st)

\* The target gains of a snapshot, in steps.
TargetsInSteps(flags) ==
    LET t == from_flags(flags)
    IN [s \in STEM_IDS |-> t[s] * UnitGain]

\* SyncedAudioFrame
Frame(dx, background, b, flags) ==
    [dialogue_raw |-> dx, background_raw |-> background, dx_raw |-> dx,
     music_raw |-> b["music"], foley_raw |-> b["foley"], sfx_raw |-> b["sfx"],
     ambience_raw |-> b["ambience"], stem_flags |-> flags]

\* process_frame on the five buffers, with the snapshot `flags` of the
\* stem-state map: the frame and the runtime gains after it.
process_frame(bufs, gains, flags) ==
    LET t == TargetsInSteps(flags)
        d == apply_gain_ramp(bufs["dx"], gains["dx"], t["dx"], gain_step_per_sample)
        bg == sum_background_stems(bufs, [gains EXCEPT !["dx"] = d.gain], t,
                                   gain_step_per_sample)
    IN [frame |-> Frame(d.buffer, bg.mixed, bg.buffers, flags),
        gains |-> bg.gains]

\* snapshot_stem_flags always taking its branch for a poisoned lock.
snapshot_stem_flags_default(map) == from_map(<<>>)

\* snapshot_stem_flags: from_map under the read lock.
snapshot_stem_flags(map) == from_map(map)

\* What a call returns: Ok(Some(frame)), Ok(None), Ok(()) or Err(error).
NoFrame == Frame(<<>>, <<>>, [s \in STEM_IDS |-> <<>>], from_map(<<>>))

NoTime == [class |-> "none", value |-> 0]

Returned(call, kind, error, frame) ==
    [call |-> call, kind |-> kind, error |-> error, frame |-> frame,
     seconds |-> NoTime]

\* What seek(seconds) returns, with its argument.
SeekReturned(seconds, kind, error) ==
    [Returned("seek", kind, error, NoFrame) EXCEPT !.seconds = seconds]

\* The five fill_until calls of read_frame. `failing` is the stem whose next
\* packet is a fatal error, or "none": the stems before it are filled, the
\* others are not reached.
FillStems(d, minimum_samples, failing) ==
    [s \in STEM_IDS |->
        IF failing = "none" \/ StemIndex(s) < StemIndex(failing)
        THEN fill_until(d[s], minimum_samples) ELSE d[s]]

\* read_frame up to the call of process_frame (lines 686-752): the stems and
\* the flag after it, and either the five buffers, resized to one length, or
\* what read_frame returns without a frame (kind "none" or "err").
pop_synchronized(d, mismatch, failing) ==
    LET filled == FillStems(d, FrameSize, failing)
        popped == [s \in STEM_IDS |-> pop_frame(filled[s], FrameSize)]
        after == [s \in STEM_IDS |-> popped[s].stem]
        all_empty == \A s \in STEM_IDS : popped[s].samples = <<>>
        bufs == [s \in STEM_IDS |->
                    IF all_empty THEN Zeros(FrameSize) ELSE popped[s].samples]
        max_len == MaxLenOf(bufs)
        no_frame == [s \in STEM_IDS |-> <<>>]
    IN IF failing # "none"
       THEN [stems |-> filled, decoder_mismatch |-> mismatch, kind |-> "err",
             error |-> "Decode", buffers |-> no_frame]
       ELSE IF \A s \in STEM_IDS : is_finished(filled[s])
       THEN [stems |-> filled, decoder_mismatch |-> mismatch, kind |-> "none",
             error |-> "", buffers |-> no_frame]
       ELSE IF all_empty /\ \A s \in STEM_IDS : is_finished(after[s])
       THEN [stems |-> after, decoder_mismatch |-> mismatch, kind |-> "none",
             error |-> "", buffers |-> no_frame]
       ELSE [stems |-> after,
             decoder_mismatch |-> mismatch \/ PoppedMismatch(bufs),
             kind |-> "frame", error |-> "",
             buffers |-> [s \in STEM_IDS |-> resize(bufs[s], max_len)]]

\* read_frame: the decoder after the call and the result.
read_frame(d, gains, mismatch, flags, failing) ==
    LET p == pop_synchronized(d, mismatch, failing)
        out == process_frame(p.buffers, gains, flags)
    IN [stems |-> p.stems,
        decoder_mismatch |-> p.decoder_mismatch,
        stem_runtime_gains |-> IF p.kind = "frame" THEN out.gains ELSE gains,
        ret |-> Returned("read_frame", p.kind, p.error,
                         IF p.kind = "frame" THEN out.frame ELSE NoFrame)]

\* drain_tail: the decoder after the call and the frame.
drain_tail(d, gains, flags) ==
    LET rest == [s \in STEM_IDS |-> drain_remaining(d[s])]
        bufs == [s \in STEM_IDS |-> rest[s].samples]
        max_len == MaxLenOf(bufs)
        out == process_frame([s \in STEM_IDS |-> resize(bufs[s], max_len)],
                             gains, flags)
    IN [stems |-> [s \in STEM_IDS |-> rest[s].stem],
        stem_runtime_gains |-> out.gains,
        ret |-> Returned("drain_tail", "frame", "", out.frame)]

\* An f32 or f64 argument: a finite number, an infinity (value is its sign)
\* or a NaN.
Finite(v) == [class |-> "finite", value |-> v]

Infinity(sign) == [class |-> "infinite", value |-> sign]

NaN == [class |-> "nan", value |-> 0]

\* f32::is_finite
is_finite(x) == x.class = "finite"

\* x < 0.0: false for a NaN.
BelowZero(x) == x.class # "nan" /\ x.value < 0

\* The test of seek never true.
SeekRejectsNothing(seconds) == FALSE

\* `!seconds.is_finite() || seconds < 0.0` of MikupAudioDecoder::seek
SeekRejects(seconds) == ~is_finite(seconds) \/ BelowZero(seconds)

\* The sample position of a time in seconds.
PositionOf(seconds) == seconds.value * TargetSampleRate

\* MikupAudioDecoder::seek once the time is accepted: the stems are sought in
\* order; `failing` is the stem whose format.seek fails, or "none".
seek(d, seconds, failing) ==
    [s \in STEM_IDS |->
        IF failing = "none" \/ StemIndex(s) < StemIndex(failing)
        THEN seek_stem(d[s], PositionOf(seconds), TRUE)
        ELSE IF s = failing THEN seek_stem(d[s], PositionOf(seconds), FALSE)
        ELSE d[s]]

\* The samples the frame of a call holds per stem (none if it returned no
\* frame).
FrameLen(r) == IF r.kind = "frame" THEN Len(r.frame.dx_raw) ELSE 0

\* The ghost counter `held` after a call that processed n samples toward the
\* target gains t.
HeldAfter(t, n) ==
    IF t = target_gains THEN Min(held + n, FadeSamples) ELSE Min(n, FadeSamples)

\* MikupAudioDecoder::new with the shared default stem states: five stems
\* opened, runtime gains 1.0.
DecoderIdle ==
    /\ stems = [s \in STEM_IDS |-> OpenStem(0)]
    /\ stem_runtime_gains = [s \in STEM_IDS |-> UnitGain]
    /\ decoder_mismatch = FALSE
    /\ ret = Returned("new", "ok", "", NoFrame)
    /\ frames_returned = 0
    /\ ended = FALSE
    /\ reads_only = TRUE
    /\ held = 0

DecoderInit(lengths) ==
    /\ stems \in {[s \in STEM_IDS |-> OpenStem(l[s])] : l \in lengths}
    /\ stem_runtime_gains = [s \in STEM_IDS |-> UnitGain]
    /\ decoder_mismatch = FALSE
    /\ ret = Returned("new", "ok", "", NoFrame)
    /\ frames_returned = 0
    /\ ended = FALSE
    /\ reads_only = TRUE
    /\ held = 0

\* What a call that returned `r` leaves of the snapshot and of the ghosts.
AfterCall(r, flags) ==
    /\ ret' = r
    /\ IF r.kind = "frame"
       THEN /\ stem_flags' = flags
            /\ target_gains' = from_flags(flags)
            /\ held' = HeldAfter(from_flags(flags), FrameLen(r))
       ELSE UNCHANGED <<stem_flags, target_gains, held>>
    /\ UNCHANGED stem_states

\* One call of MikupAudioDecoder::read_frame.
ReadFrame(failing) ==
    /\ failing # "none" => NeedsPacket(stems[failing], FrameSize)
    /\ LET flags == snapshot_stem_flags(stem_states)
           r == read_frame(stems, stem_runtime_gains, decoder_mismatch, flags,
                           failing)
       IN /\ stems' = r.stems
          /\ stem_runtime_gains' = r.stem_runtime_gains
          /\ decoder_mismatch' = r.decoder_mismatch
          /\ AfterCall(r.ret, flags)
          /\ frames_returned' =
                IF r.ret.kind = "frame" THEN frames_returned + 1
                ELSE frames_returned
          /\ ended' = (ended \/ r.ret.kind = "none")
          /\ reads_only' = (reads_only /\ r.ret.kind # "err")

\* One call of MikupAudioDecoder::drain_tail.
DrainTail ==
    LET flags == snapshot_stem_flags(stem_states)
        r == drain_tail(stems, stem_runtime_gains, flags)
    IN /\ stems' = r.stems
       /\ stem_runtime_gains' = r.stem_runtime_gains
       /\ AfterCall(r.ret, flags)
       /\ reads_only' = FALSE
       /\ UNCHANGED <<decoder_mismatch, frames_returned, ended>>

\* One call of MikupAudioDecoder::seek.
Seek(seconds, failing) ==
    /\ IF SeekRejects(seconds)
       THEN /\ ret' = SeekReturned(seconds, "err", "InvalidConfig")
            /\ UNCHANGED <<stems, frames_returned, ended>>
       ELSE /\ stems' = seek(stems, seconds, failing)
            /\ ret' = IF failing = "none"
                      THEN SeekReturned(seconds, "ok", "")
                      ELSE SeekReturned(seconds, "err", "Seek")
            /\ frames_returned' = 0
            /\ ended' = FALSE
    /\ reads_only' = FALSE
    /\ UNCHANGED <<stem_runtime_gains, decoder_mismatch, held, flagVars>>

(***************************************************************************)
(* read_frame step by step, for a decoder whose stem-state map another     *)
(* thread writes: the filling and popping touch the decoder alone, the     *)
(* snapshot reads the map under its read lock, and the gains are then      *)
(* applied with the lock released.                                         *)
(***************************************************************************)
SnapIdle ==
    /\ frame_pc = "idle"
    /\ frame_buffers = [s \in STEM_IDS |-> <<>>]
    /\ snap_calls = 0

\* read_frame from its call to the call of process_frame (lines 686-754).
ReadFrameEnter(failing) ==
    /\ frame_pc = "idle"
    /\ failing # "none" => NeedsPacket(stems[failing], FrameSize)
    /\ LET p == pop_synchronized(stems, decoder_mismatch, failing)
       IN /\ stems' = p.stems
          /\ decoder_mismatch' = p.decoder_mismatch
          /\ IF p.kind = "frame"
             THEN /\ frame_pc' = "popped"
                  /\ frame_buffers' = p.buffers
                  /\ UNCHANGED <<ret, ended, reads_only>>
             ELSE /\ ret' = Returned("read_frame", p.kind, p.error, NoFrame)
                  /\ ended' = (ended \/ p.kind = "none")
                  /\ reads_only' = (reads_only /\ p.kind # "err")
                  /\ UNCHANGED <<frame_pc, frame_buffers>>
    /\ UNCHANGED <<stem_runtime_gains, frames_returned, held, flagVars,
                   snap_calls>>

\* The first two statements of process_frame (lines 801-802).
SnapshotStemFlags ==
    /\ frame_pc = "popped"
    /\ stem_flags' = snapshot_stem_flags(stem_states)
    /\ target_gains' = from_flags(stem_flags')
    /\ held' = HeldAfter(target_gains', Len(frame_buffers["dx"]))
    /\ snap_calls' = set_result.calls
    /\ frame_pc' = "snapshot"
    /\ UNCHANGED <<stem_states, stems, stem_runtime_gains, decoder_mismatch,
                   ret, frames_returned, ended, reads_only, frame_buffers>>

\* The rest of process_frame and the return of read_frame (lines 804-832).
ProcessFrameGains ==
    /\ frame_pc = "snapshot"
    /\ LET out == process_frame(frame_buffers, stem_runtime_gains, stem_flags)
       IN /\ stem_runtime_gains' = out.gains
          /\ ret' = Returned("read_frame", "frame", "", out.frame)
    /\ frames_returned' = frames_returned + 1
    /\ frame_pc' = "idle"
    /\ frame_buffers' = [s \in STEM_IDS |-> <<>>]
    /\ UNCHANGED <<stems, decoder_mismatch, ended, reads_only, held, flagVars,
                   snap_calls>>

(***************************************************************************)
(* The command set_stem_state (lib.rs).                                    *)
(*                                                                         *)
(* A String is the sequence of its characters, so that trim and            *)
(* to_ascii_lowercase are computed; Text gives the keys of the map, which  *)
(* are written as TLA+ strings, their characters.                          *)
(***************************************************************************)
Text == [dx |-> <<"d", "x">>,
         music |-> <<"m", "u", "s", "i", "c">>,
         sfx |-> <<"s", "f", "x">>,
         foley |-> <<"f", "o", "l", "e", "y">>,
         ambience |-> <<"a", "m", "b", "i", "e", "n", "c", "e">>,
         dx_raw |-> <<"d", "x", "_", "r", "a", "w">>,
         d_x |-> <<"d", " ", "x">>,
         empty |-> <<>>]

\* The key whose characters are chars.
KeyOf(chars) ==
    IF \E k \in DOMAIN Text : Text[k] = chars
    THEN CHOOSE k \in DOMAIN Text : Text[k] = chars
    ELSE "other"

WhiteSpace == {" ", "\t", "\n"}

UpperCase == [D |-> "d", X |-> "x", M |-> "m", U |-> "u", S |-> "s",
              I |-> "i", C |-> "c", F |-> "f", O |-> "o", L |-> "l",
              E |-> "e", Y |-> "y", A |-> "a", B |-> "b", N |-> "n",
              R |-> "r", W |-> "w"]

\* str::trim
RECURSIVE trim(_)
trim(chars) ==
    IF chars = <<>> THEN chars
    ELSE IF Head(chars) \in WhiteSpace THEN trim(Tail(chars))
    ELSE IF chars[Len(chars)] \in WhiteSpace
         THEN trim(SubSeq(chars, 1, Len(chars) - 1))
    ELSE chars

\* str::to_ascii_lowercase
to_ascii_lowercase(chars) ==
    [i \in DOMAIN chars |->
        IF chars[i] \in DOMAIN UpperCase THEN UpperCase[chars[i]] ELSE chars[i]]

\* The stem id used as it was given.
normalized_as_given(stem_id) == KeyOf(stem_id)

\* `stem_id.trim().to_ascii_lowercase()`
normalized(stem_id) == KeyOf(to_ascii_lowercase(trim(stem_id)))

\* Every id accepted.
is_stem_id_any(key) == TRUE

\* `matches!(normalized, "dx" | "music" | "sfx" | "foley" | "ambience")`
is_stem_id(key) == key \in {"dx", "music", "sfx", "foley", "ambience"}

\* HashMap::insert
Insert(map, key, value) ==
    [k \in DOMAIN map \cup {key} |-> IF k = key THEN value ELSE map[k]]

\* default_stem_states
default_stem_states == [s \in STEM_IDS |-> DefaultStemState]

\* The stem ids the front end or any caller of the command may send.
StemIdArguments ==
    {Text["dx"], Text["music"], Text["sfx"], Text["foley"], Text["ambience"],
     <<" ", "D", "X", "\t">>, <<"M", "u", "s", "i", "c">>,
     <<"s", "f", "x", "\n">>, <<" ", " ">>, Text["empty"], Text["dx_raw"],
     Text["d_x"], <<"D", "X", "_", "R", "A", "W", " ">>}

\* The ids as the front end sends them: lower case, no white space.
PlainStemIds == {Text[s] : s \in STEM_IDS}

SetStateIdle ==
    set_result = [calls |-> 0, stem_id |-> <<>>, is_solo |-> FALSE,
                  is_muted |-> FALSE, result |-> "none"]

\* One call of set_stem_state (lib.rs 745-768). The write lock is held for
\* the insert alone and is never poisoned.
SetStemState(stem_id, is_solo, is_muted) ==
    /\ set_result.calls < MaxWrites
    /\ LET key == normalized(stem_id)
       IN IF ~is_stem_id(key)
          THEN /\ set_result' = [calls |-> set_result.calls + 1,
                                 stem_id |-> stem_id, is_solo |-> is_solo,
                                 is_muted |-> is_muted, result |-> "err"]
               /\ UNCHANGED stem_states
          ELSE /\ stem_states' =
                     Insert(stem_states, key,
                            [is_solo |-> is_solo, is_muted |-> is_muted])
               /\ set_result' = [calls |-> set_result.calls + 1,
                                 stem_id |-> stem_id, is_solo |-> is_solo,
                                 is_muted |-> is_muted, result |-> "ok"]
    /\ UNCHANGED <<stem_flags, target_gains>>

(***************************************************************************)
(* The start time of stream_audio_metrics (lib.rs 796-798).                *)
(***************************************************************************)
\* The test of start_time never true.
StartRejectsNothing(start_time) == FALSE

\* `!start_time.is_finite() || start_time < 0.0`
StartRejects(start_time) == ~is_finite(start_time) \/ BelowZero(start_time)

StartIdle == bad_start = FALSE

(***************************************************************************)
(* AudioOutputPlayer (dsp/player.rs). One thread, the producer, pushes     *)
(* into the queue; the device callback, on the audio thread, pops from it. *)
(* ArrayQueue::push and ArrayQueue::pop are atomic. A sample is modelled   *)
(* by its position in the slice it came from.                              *)
(***************************************************************************)
Channels == {1, 2}

\* new_default: `(..).ceil() as usize).max(channels * 512)`, `wanted` being
\* ceil(rate * channels * buffer_seconds).
new_capacity(wanted, channels) == Max(wanted, channels * MinFrames)

\* A push that ignores the capacity.
push_unbounded(q, cap, sample) == [queue |-> Append(q, sample), ok |-> TRUE]

\* ArrayQueue::push: Err(sample) when the queue is full.
push(q, cap, sample) ==
    IF Len(q) < cap
    THEN [queue |-> Append(q, sample), ok |-> TRUE]
    ELSE [queue |-> q, ok |-> FALSE]

\* The blocking push giving a sample up when the queue is full.
pos_after_abandoned_push(pos, ok) == pos + 1

\* The position in the slice after a push that is retried until it succeeds
\* (push_interleaved_blocking: `Ok(()) => break`, `Err(..) => sleep`).
pos_after_retried_push(pos, ok) == IF ok THEN pos + 1 ELSE pos

\* The nonblocking push staying at a sample the full queue refused.
pos_after_refused_push(pos, ok) == IF ok THEN pos + 1 ELSE pos

\* The position in the slice after `let _ = self.queue.push(sample);`: the
\* loop goes on to the next sample whatever push returned.
pos_after_push(pos, ok) == pos + 1

\* free_slots
free_slots == IF capacity >= Len(queue) THEN capacity - Len(queue) ELSE 0

\* The producer outside every call.
IdleProducer ==
    [op |-> "idle", samples |-> <<>>, pos |-> 1, free |-> 0,
     popped |-> FALSE, kept |-> <<>>]

\* The callback between two calls. `zeros` counts the output elements
\* written as 0.0 for want of a queued sample since the player was built;
\* every other element is written with the sample popped for it.
IdleCallback == [running |-> FALSE, left |-> 0, zeros |-> 0]

PlayerIdle ==
    /\ queue = <<>>
    /\ capacity = 0
    /\ producer = IdleProducer
    /\ callback = IdleCallback
    /\ underrun_samples = 0
    /\ producer_finished = FALSE
    /\ drained = FALSE
    /\ cancel = FALSE

\* The capacities new_default can give a queue.
Capacities ==
    {new_capacity(wanted, channels) :
        wanted \in 1..MaxWanted, channels \in Channels}

\* AudioOutputPlayer::new_default returned Ok.
PlayerInit ==
    /\ queue = <<>>
    /\ capacity \in Capacities
    /\ producer = IdleProducer
    /\ callback = IdleCallback
    /\ underrun_samples = 0
    /\ producer_finished = FALSE
    /\ drained = FALSE
    /\ cancel = FALSE

\* new_default returns Ok inside a program that had no player: the fields
\* other than the capacity are built with the values they have without one.
NewDefault(cap) ==
    /\ capacity' = cap
    /\ UNCHANGED <<queue, producer, callback, underrun_samples,
                   producer_finished, drained, cancel>>

\* push_interleaved_nonblocking is called: `free` is what free_slots is at
\* the call, `popped` whether the callback has popped since, `kept` the
\* positions of the samples enqueued so far.
PushInterleavedNonblocking(interleaved_samples) ==
    /\ producer.op = "idle"
    /\ producer' = [op |-> "nonblocking", samples |-> interleaved_samples,
                    pos |-> 1, free |-> free_slots, popped |-> FALSE,
                    kept |-> <<>>]
    /\ UNCHANGED <<queue, capacity, callback, underrun_samples,
                   producer_finished, drained, cancel>>

\* One turn of its loop: `let _ = self.queue.push(sample);`
PushSample ==
    /\ producer.op = "nonblocking"
    /\ producer.pos <= Len(producer.samples)
    /\ LET r == push(queue, capacity, producer.samples[producer.pos])
       IN  /\ queue' = r.queue
           /\ producer' = [producer EXCEPT
                              !.pos = pos_after_push(@, r.ok),
                              !.kept = IF r.ok THEN Append(@, producer.pos)
                                       ELSE @]
    /\ UNCHANGED <<capacity, callback, underrun_samples, producer_finished,
                   drained, cancel>>

\* The loop is over: push_interleaved_nonblocking returns.
PushReturn ==
    /\ producer.op = "nonblocking"
    /\ producer.pos > Len(producer.samples)
    /\ producer' = IdleProducer
    /\ UNCHANGED <<queue, capacity, callback, underrun_samples,
                   producer_finished, drained, cancel>>

\* push_interleaved_blocking is called.
PushInterleavedBlocking(interleaved_samples) ==
    /\ producer.op = "idle"
    /\ producer' = [IdleProducer EXCEPT !.op = "blocking_check",
                                        !.samples = interleaved_samples]
    /\ UNCHANGED <<queue, capacity, callback, underrun_samples,
                   producer_finished, drained, cancel>>

\* The top of its inner loop: `if cancel.load(..) { return Ok(()) }`.
PushBlockingCheck ==
    /\ producer.op = "blocking_check"
    /\ producer.pos <= Len(producer.samples)
    /\ producer' = IF cancel THEN IdleProducer
                    ELSE [producer EXCEPT !.op = "blocking_push"]
    /\ UNCHANGED <<queue, capacity, callback, underrun_samples,
                   producer_finished, drained, cancel>>

\* `match self.queue.push(sample)`: Ok breaks to the next sample, Err keeps
\* the sample, sleeps and goes round the inner loop again.
PushBlockingPush ==
    /\ producer.op = "blocking_push"
    /\ LET r == push(queue, capacity, producer.samples[producer.pos])
       IN  /\ queue' = r.queue
           /\ producer' = [producer EXCEPT
                              !.op = "blocking_check",
                              !.pos = pos_after_retried_push(@, r.ok),
                              !.kept = IF r.ok THEN Append(@, producer.pos)
                                       ELSE @]
    /\ UNCHANGED <<capacity, callback, underrun_samples, producer_finished,
                   drained, cancel>>

\* The outer loop is over: `Ok(())`.
PushBlockingReturn ==
    /\ producer.op = "blocking_check"
    /\ producer.pos > Len(producer.samples)
    /\ producer' = IdleProducer
    /\ UNCHANGED <<queue, capacity, callback, underrun_samples,
                   producer_finished, drained, cancel>>

\* One step of a push_interleaved_blocking call.
PushBlockingStep == PushBlockingCheck \/ PushBlockingPush \/ PushBlockingReturn

\* Another thread sets the caller's cancel flag.
SetCancel ==
    /\ ~cancel
    /\ cancel' = TRUE
    /\ UNCHANGED <<queue, capacity, producer, callback, underrun_samples,
                   producer_finished, drained>>

\* mark_producer_finished: the store of producer_finished ...
MarkProducerFinished ==
    /\ producer.op = "idle"
    /\ producer_finished' = TRUE
    /\ producer' = [IdleProducer EXCEPT !.op = "finishing"]
    /\ UNCHANGED <<queue, capacity, callback, underrun_samples, drained,
                   cancel>>

\* ... and its test of the queue.
MarkCheckEmpty ==
    /\ producer.op = "finishing"
    /\ drained' = IF queue = <<>> THEN TRUE ELSE drained
    /\ producer' = IdleProducer
    /\ UNCHANGED <<queue, capacity, callback, underrun_samples,
                   producer_finished, cancel>>

\* The underrun counter left as it is.
fetch_add_none(counter) == counter

\* `underrun_samples.fetch_add(1, Ordering::Relaxed)`: the new value.
fetch_add_one(counter) == counter + 1

\* The underruns a callback over n elements can add: the producer only
\* adds to the queue while it runs.
MaxUnderrunsOf(n) == IF n > Len(queue) THEN n - Len(queue) ELSE 0

\* A test of `drained` that never finds it set.
drained_or_cancel_never(c, d) == FALSE

\* The negated test of wait_until_drained_or_cancel's loop,
\* `!cancel.load(..) && !self.drained.load(..)`.
drained_or_cancel(c, d) == c \/ d

\* wait_until_drained_or_cancel is called.
WaitUntilDrainedOrCancel ==
    /\ producer.op = "idle"
    /\ producer' = [IdleProducer EXCEPT !.op = "waiting"]
    /\ UNCHANGED <<queue, capacity, callback, underrun_samples,
                   producer_finished, drained, cancel>>

\* One test of its loop: it returns, or sleeps poll_interval and tests
\* again.
WaitPoll ==
    /\ producer.op = "waiting"
    /\ producer' = IF drained_or_cancel(cancel, drained)
                    THEN IdleProducer ELSE producer
    /\ UNCHANGED <<queue, capacity, callback, underrun_samples,
                   producer_finished, drained, cancel>>

\* The device calls the callback with `data` of n elements.
DataCallback(n) ==
    /\ ~callback.running
    /\ underrun_samples + MaxUnderrunsOf(n) <= MaxUnderruns
    /\ callback' = [callback EXCEPT !.running = TRUE, !.left = n]
    /\ UNCHANGED <<queue, capacity, producer, underrun_samples,
                   producer_finished, drained, cancel>>

\* One element of `data`: `queue.pop().unwrap_or_else(..)`.
CallbackSample ==
    /\ callback.running
    /\ callback.left > 0
    /\ callback' = [callback EXCEPT
                       !.left = @ - 1,
                       !.zeros = IF queue # <<>> THEN @ ELSE @ + 1]
    /\ IF queue # <<>>
       THEN /\ queue' = Tail(queue)
            /\ producer' = IF producer.op = "nonblocking"
                            THEN [producer EXCEPT !.popped = TRUE]
                            ELSE producer
            /\ UNCHANGED underrun_samples
       ELSE /\ underrun_samples' = fetch_add_one(underrun_samples)
            /\ UNCHANGED <<queue, producer>>
    /\ UNCHANGED <<capacity, producer_finished, drained, cancel>>

\* The end of the callback: the test of producer_finished and the queue.
CallbackEnd ==
    /\ callback.running
    /\ callback.left = 0
    /\ callback' = [IdleCallback EXCEPT !.zeros = callback.zeros]
    /\ drained' = IF producer_finished /\ queue = <<>> THEN TRUE ELSE drained
    /\ UNCHANGED <<queue, capacity, producer, underrun_samples,
                   producer_finished, cancel>>

(***************************************************************************)
(* OfflineLoudnessScanner::scan (dsp/scanner.rs). The calling thread       *)
(* spawns one worker per canonical stem, hands every event the workers     *)
(* send to on_event, and joins the workers in the order of the stems.      *)
(* Seconds are whole seconds of decoded audio.                             *)
(***************************************************************************)
CANONICAL_STEMS == <<"DX", "Music", "Effects">>
STEM_SCAN_PROGRESS_INTERVAL_SECS == 5

MaxPackets == 3         \* the packets of the longest stem file
PacketSeconds == {4}    \* the seconds of audio one packet may hold

StemNames == {CANONICAL_STEMS[i] : i \in DOMAIN CANONICAL_STEMS}

ScanEvent(kind, stem, seconds) ==
    [kind |-> kind, stem |-> stem, seconds_scanned |-> seconds]

\* ScannerError: the variants scan can return.
NoError == [kind |-> "none", stem |-> "none"]
MissingStemPath(stem) == [kind |-> "MissingStemPath", stem |-> stem]
\* An error scan_stem returned for the stem (MissingStemFile,
\* InvalidStemFormat, Probe, Decode or Meter).
StemError(stem) == [kind |-> "StemError", stem |-> stem]
ThreadJoin == [kind |-> "ThreadJoin", stem |-> "none"]

\* The packets of each stem's file: a long one, a short one and an empty one.
FilePackets == [DX |-> MaxPackets, Music |-> 1, Effects |-> 0]

\* A worker thread: not spawned, spawned (before its first send), inside
\* scan_stem, or terminated with the value handle.join() gives.
NoWorker ==
    [pc |-> "none", outcome |-> "none", packets |-> 0, seconds |-> 0,
     next_progress_secs |-> 0]

\* The command generate_static_map around the scan: not called, inside scan,
\* or returned Ok or Err; `missing` names the stem of "Scanner did not
\* produce <stem> profile".
NoCommand == [state |-> "none", missing |-> "none"]

NoScan ==
    [pc |-> "idle", stem_paths |-> {}, next |-> 1, joined |-> {}, profiles |-> {},
     result |-> "none", error |-> NoError, command |-> NoCommand]

\* The locals of scan_stem before a call. next_capture_sample is held in
\* units of 1 / points_per_second of a sample, in which capture_step_samples
\* is sample_rate: both are exact in the code's f64 (a step of a whole or a
\* half sample, sums below 2^53).
NoStemScan ==
    [pc |-> "idle", sample_rate |-> 0, points_per_second |-> 0,
     processed_samples |-> 0, next_capture_sample |-> 0,
     momentary |-> <<>>, short_term |-> <<>>, result |-> "none"]

ScanIdle ==
    /\ scan = NoScan
    /\ scan_workers = [s \in StemNames |-> NoWorker]
    /\ channel = <<>>
    /\ delivered = [s \in StemNames |-> <<>>]
    /\ stem_scan = NoStemScan

\* event_rx is alive until scan returns; a send to a dropped receiver fails
\* and its result is ignored (`let _ = tx.send(..)`).
send(event) == IF scan.pc = "returned" THEN channel ELSE Append(channel, event)

\* A call of scan with a path map holding the given keys (lines 120-122).
ScanCall(keys) ==
    /\ scan.pc = "idle"
    /\ scan' = [scan EXCEPT !.pc = "spawn", !.stem_paths = keys]
    /\ UNCHANGED <<scan_workers, channel, delivered>>

\* One turn of the loop over CANONICAL_STEMS (lines 123-158), and after the
\* last turn drop(event_tx) (line 159). A stem with no path returns
\* MissingStemPath at once: the handles pushed so far are dropped unjoined,
\* and the receiver with the events it holds, which stay undelivered.
ScanSpawn ==
    /\ scan.pc = "spawn"
    /\ IF scan.next > Len(CANONICAL_STEMS)
       THEN /\ scan' = [scan EXCEPT !.pc = "events", !.next = 1]
            /\ UNCHANGED <<scan_workers, channel>>
       ELSE LET stem == CANONICAL_STEMS[scan.next] IN
            IF stem \notin scan.stem_paths
            THEN /\ scan' = [scan EXCEPT !.pc = "returned", !.result = "Err",
                                         !.error = MissingStemPath(stem)]
                 /\ UNCHANGED <<scan_workers, channel>>
            ELSE /\ scan' = [scan EXCEPT !.next = @ + 1]
                 /\ scan_workers' =
                        [scan_workers EXCEPT ![stem] =
                            [NoWorker EXCEPT !.pc = "spawned"]]
                 /\ UNCHANGED channel
    /\ UNCHANGED delivered

\* A sender is alive while its worker's closure has not ended.
SendersAlive == \E s \in StemNames : scan_workers[s].pc \in {"spawned", "scanning"}

\* One turn of `for event in event_rx` (lines 161-163): the next event goes
\* to on_event; the loop ends when the channel is empty and every sender has
\* been dropped, and waits otherwise.
ScanReceive ==
    /\ scan.pc = "events"
    /\ IF channel # <<>>
       THEN /\ delivered' = [delivered EXCEPT ![Head(channel).stem] =
                                Append(@, Head(channel))]
            /\ channel' = Tail(channel)
            /\ UNCHANGED scan
       ELSE /\ ~SendersAlive
            /\ scan' = [scan EXCEPT !.pc = "join"]
            /\ UNCHANGED <<channel, delivered>>
    /\ UNCHANGED scan_workers

\* A join that takes a panic for an error of the stem.
join_result_no_panic(stem, outcome) ==
    IF outcome = "ok" THEN [result |-> "none", error |-> NoError]
    ELSE [result |-> "Err", error |-> StemError(stem)]

\* What the join of a worker that ended with `outcome` makes of the scan
\* (lines 167-177): the result and the error.
join_result(stem, outcome) ==
    CASE outcome = "ok" -> [result |-> "none", error |-> NoError]
      [] outcome = "err" -> [result |-> "Err", error |-> StemError(stem)]
      [] OTHER -> [result |-> "Err", error |-> ThreadJoin]

\* One turn of the loop over the handles (lines 165-180): handle.join()
\* waits for the thread to end.
ScanJoin ==
    /\ scan.pc = "join"
    /\ IF scan.next > Len(CANONICAL_STEMS)
       THEN scan' = [scan EXCEPT !.pc = "returned", !.result = "Ok"]
       ELSE LET stem == CANONICAL_STEMS[scan.next]
                joined == join_result(stem, scan_workers[stem].outcome)
            IN  /\ scan_workers[stem].pc = "done"
                /\ IF joined.result = "none"
                   THEN scan' = [scan EXCEPT !.next = @ + 1,
                                             !.joined = @ \cup {stem},
                                             !.profiles = @ \cup {stem}]
                   ELSE scan' = [scan EXCEPT !.pc = "returned",
                                             !.joined = @ \cup {stem},
                                             !.result = joined.result,
                                             !.error = joined.error]
    /\ UNCHANGED <<scan_workers, channel, delivered>>

\* The stems whose worker thread has been spawned.
Spawned == {stem \in StemNames : scan_workers[stem].pc # "none"}

\* The worker's first statement: the send of StemStarted (lines 134-139).
WorkerStarted(stem) ==
    /\ scan_workers[stem].pc = "spawned"
    /\ channel' = send(ScanEvent("StemStarted", stem, 0))
    /\ scan_workers' = [scan_workers EXCEPT ![stem] =
            [@ EXCEPT !.pc = "scanning",
                      !.next_progress_secs = STEM_SCAN_PROGRESS_INTERVAL_SECS]]
    /\ UNCHANGED <<scan, delivered>>

\* One packet of scan_stem with the progress closure (lines 140-148): a
\* StemProgress is sent when the seconds decoded have reached
\* next_progress_secs, which then moves on by one interval.
WorkerPacket(stem, length) ==
    LET worker == scan_workers[stem]
        seconds == worker.seconds + length
        due == seconds >= worker.next_progress_secs
    IN  /\ worker.pc = "scanning"
        /\ worker.packets < FilePackets[stem]
        /\ channel' = IF due THEN send(ScanEvent("StemProgress", stem, seconds))
                             ELSE channel
        /\ scan_workers' = [scan_workers EXCEPT ![stem] =
                [@ EXCEPT !.packets = @ + 1,
                          !.seconds = seconds,
                          !.next_progress_secs =
                              IF due THEN @ + STEM_SCAN_PROGRESS_INTERVAL_SECS
                                     ELSE @]]
        /\ UNCHANGED <<scan, delivered>>

\* The end of the worker (lines 148-155): scan_stem returned a profile and
\* StemFinished is sent, or it returned an error and `?` returns it, or the
\* thread panicked. The worker's sender is dropped with its closure, and
\* its locals with the thread. The profile comes at the end of the file.
WorkerEnd(stem, outcome) ==
    /\ scan_workers[stem].pc = "scanning"
    /\ outcome = "ok" => scan_workers[stem].packets = FilePackets[stem]
    /\ channel' = IF outcome = "ok"
                  THEN send(ScanEvent("StemFinished", stem, 0))
                  ELSE channel
    /\ scan_workers' = [scan_workers EXCEPT ![stem] =
            [NoWorker EXCEPT !.pc = "done", !.outcome = outcome]]
    /\ UNCHANGED <<scan, delivered>>

\* The stems generate_static_map reads from the profiles (lib.rs 640-654),
\* in the order it reads them.
REPORTED_STEMS == <<"DX", "Music", "SFX", "Foley", "Ambience">>

\* The first stem of the list with no profile, or "none".
RECURSIVE first_missing(_, _)
first_missing(names, profiles) ==
    IF names = <<>> THEN "none"
    ELSE IF Head(names) \notin profiles THEN Head(names)
    ELSE first_missing(Tail(names), profiles)

\* generate_static_map up to its call of scan (lib.rs 572-597), for a
\* workspace in which resolve_required_stems finds a path for every
\* canonical stem.
GenerateStaticMap ==
    /\ scan.pc = "idle"
    /\ scan' = [scan EXCEPT !.pc = "spawn", !.stem_paths = StemNames,
                            !.command = [NoCommand EXCEPT !.state = "scanning"]]
    /\ UNCHANGED <<scan_workers, channel, delivered>>

\* What generate_static_map makes of the profiles of a scan that returned Ok
\* (lib.rs 640-705): each reported stem's profile is taken from the map, and
\* the first one absent ends the command with its error.
profiles_result(profiles) ==
    LET missing == first_missing(REPORTED_STEMS, profiles) IN
    [state |-> IF missing = "none" THEN "Ok" ELSE "Err", missing |-> missing]

\* generate_static_map after its scan (lib.rs 638-705): the error of the scan
\* is returned with `?`.
GenerateStaticMapReturn ==
    /\ scan.pc = "returned"
    /\ scan.command.state = "scanning"
    /\ scan' = [scan EXCEPT !.command =
            IF scan.result = "Err" THEN [NoCommand EXCEPT !.state = "Err"]
            ELSE profiles_result(scan.profiles)]
    /\ UNCHANGED <<scan_workers, channel, delivered>>

(***************************************************************************)
(* OfflineLoudnessScanner::scan_stem (dsp/scanner.rs), the decode loop of  *)
(* one stem with its capture of loudness readings. A reading is modelled   *)
(* by the name of the meter value read.                                    *)
(***************************************************************************)
MaxScanSamples == 20    \* samples decoded from one stem
MaxMono == 4            \* samples of one decoded packet
SampleRates == {1, 2, 3}
PointsPerSecond == {1, 2}    \* what OfflineLoudnessScanner::new accepts

\* A call of scan_stem up to its loop (lines 183-254), for a file that opens
\* and probes with the given sample rate.
ScanStem(rate, points) ==
    /\ stem_scan.pc = "idle"
    /\ stem_scan' = [NoStemScan EXCEPT !.pc = "loop", !.sample_rate = rate,
                                       !.points_per_second = points]

\* The test of the capture loop with `>` for `>=`.
capture_reached_after(processed, points, next) == processed * points > next

\* The test of the capture loop (line 308).
capture_reached(processed, points, next) == processed * points >= next

\* The capture loop (lines 308-312) run to its end.
RECURSIVE capture(_)
capture(s) ==
    IF capture_reached(s.processed_samples, s.points_per_second,
                       s.next_capture_sample)
    THEN capture([s EXCEPT !.momentary = Append(@, "loudness_momentary"),
                           !.short_term = Append(@, "loudness_shortterm"),
                           !.next_capture_sample = @ + s.sample_rate])
    ELSE s

\* One turn of the loop with a packet that decodes to `length` mono samples
\* (lines 256-315). A turn that ends in `continue` (another track, a decode
\* error, no samples) changes nothing.
StemPacket(length) ==
    /\ stem_scan.pc = "loop"
    /\ stem_scan.processed_samples + length <= MaxScanSamples
    /\ stem_scan' = capture([stem_scan EXCEPT !.processed_samples = @ + length])

\* The end of the file (lines 259-263, 285-289, 317-322): the profile.
StemEof ==
    /\ stem_scan.pc = "loop"
    /\ stem_scan' = [stem_scan EXCEPT !.pc = "returned", !.result = "Ok"]

\* A read, decode or meter error (lines 268-273, 290-295, 303-305): no
\* profile.
StemFails ==
    /\ stem_scan.pc = "loop"
    /\ stem_scan' = [stem_scan EXCEPT !.pc = "returned", !.result = "Err",
                                      !.momentary = <<>>, !.short_term = <<>>]

(***************************************************************************)
(* OfflineLoudnessScanner::resolve_required_stems (dsp/scanner.rs). The    *)
(* keys and the paths of the caller's map are sequences of characters. A   *)
(* HashMap is iterated in no fixed order: where two keys match a name,     *)
(* find_map may come to either first.                                      *)
(***************************************************************************)
\* The characters of the canonical stem names.
StemText == [DX |-> <<"D", "X">>,
             Music |-> <<"M", "u", "s", "i", "c">>,
             Effects |-> <<"E", "f", "f", "e", "c", "t", "s">>]

\* The aliases of a stem, in their order (lines 386-391).
aliases(stem) ==
    CASE stem = "DX" -> <<<<"d", "i", "a", "l", "o", "g", "u", "e", "_", "r", "a", "w">>,
                          <<"d", "x", "_", "r", "a", "w">>,
                          <<"d", "i", "a", "l", "o", "g", "u", "e">>>>
      [] stem = "Music" -> <<<<"m", "u", "s", "i", "c", "_", "r", "a", "w">>,
                             <<"b", "a", "c", "k", "g", "r", "o", "u", "n", "d", "_", "r", "a", "w">>,
                             <<"m", "u", "s", "i", "c">>>>
      [] stem = "Effects" -> <<<<"e", "f", "f", "e", "c", "t", "s", "_", "r", "a", "w">>,
                               <<"e", "f", "f", "e", "c", "t", "s">>,
                               <<"b", "a", "c", "k", "g", "r", "o", "u", "n", "d", "_", "r", "a", "w">>>>
      [] OTHER -> <<>>

\* str::eq_ignore_ascii_case
eq_ignore_ascii_case(a, b) == to_ascii_lowercase(a) = to_ascii_lowercase(b)

\* The values find_map may return for a name (lines 382-384, 394-396): the
\* value of any key equal to the name but for the case. None is the empty
\* set.
find_key(stem_paths, name) ==
    {stem_paths[k] : k \in {key \in DOMAIN stem_paths :
                                eq_ignore_ascii_case(key, name)}}

\* The first alias of the list that a key matches (lines 393-397).
RECURSIVE find_alias(_, _)
find_alias(stem_paths, names) ==
    IF names = <<>> THEN {}
    ELSE IF find_key(stem_paths, Head(names)) # {}
         THEN find_key(stem_paths, Head(names))
    ELSE find_alias(stem_paths, Tail(names))

\* A lookup that asks the aliases before the canonical name.
lookup_alias_first(stem_paths, stem) ==
    IF find_alias(stem_paths, aliases(stem)) # {}
    THEN find_alias(stem_paths, aliases(stem))
    ELSE find_key(stem_paths, StemText[stem])

\* lookup_stem_path (lines 378-399): the values it may return.
lookup_stem_path(stem_paths, stem) ==
    IF find_key(stem_paths, StemText[stem]) # {}
    THEN find_key(stem_paths, StemText[stem])
    ELSE find_alias(stem_paths, aliases(stem))

NoResolve ==
    [pc |-> "idle", stem_paths |-> <<>>, next |-> 1, resolved |-> <<>>,
     result |-> "none", error |-> NoError]

\* A call of resolve_required_stems (lines 95-98).
ResolveRequiredStems(stem_paths) ==
    /\ resolve.pc = "idle"
    /\ resolve' = [NoResolve EXCEPT !.pc = "loop", !.stem_paths = stem_paths]

\* The outcome of one turn of the loop for the value the lookup gave
\* (lines 100-107).
resolve_turn(r, stem, value) ==
    IF trim(value) = <<>>
    THEN [r EXCEPT !.pc = "returned", !.result = "Err",
                   !.error = MissingStemPath(stem)]
    ELSE [r EXCEPT !.next = @ + 1,
                   !.resolved = Insert(@, stem, trim(value))]

\* One turn of the loop over CANONICAL_STEMS (lines 99-108), and after the
\* last one Ok(resolved) (line 109).
ResolveStem ==
    /\ resolve.pc = "loop"
    /\ IF resolve.next > Len(CANONICAL_STEMS)
       THEN resolve' = [resolve EXCEPT !.pc = "returned", !.result = "Ok"]
       ELSE LET stem == CANONICAL_STEMS[resolve.next]
                found == lookup_stem_path(resolve.stem_paths, stem)
            IN  IF found = {}
                THEN resolve' = [resolve EXCEPT !.pc = "returned",
                                                !.result = "Err",
                                                !.error = MissingStemPath(stem)]
                ELSE \E value \in found :
                        resolve' = resolve_turn(resolve, stem, value)

(***************************************************************************)
(* The Lissajous points of a dsp-frame event (lib.rs 910-917). A point is  *)
(* modelled by its place in the frame: SpatialAnalyzer::process_frame      *)
(* gives one point per sample of the frame (dsp/spatial.rs 25-38, 71-79).  *)
(***************************************************************************)
LISSAJOUS_MAX_POINTS == 128

\* spatial_metrics.lissajous_points of a frame of len samples.
lissajous_points(len) == [i \in 1..len |-> i]

\* Iterator::step_by: the element at every place that is a multiple of the
\* stride after the first, in their order.
step_by(points, stride) ==
    LET kept == {i \in DOMAIN points : (i - 1) % stride = 0}
    IN  [k \in 1..Cardinality(kept) |-> points[(k - 1) * stride + 1]]

\* `(len / LISSAJOUS_MAX_POINTS).max(1)` (line 911)
lissajous_step(len) ==
    IF len \div LISSAJOUS_MAX_POINTS > 1 THEN len \div LISSAJOUS_MAX_POINTS ELSE 1

NoLissajous == [len |-> 0, step |-> 0, lissajous_points |-> <<>>]

\* The payload's points for an emitted frame of len samples (lines 910-917).
SubsampleLissajous(len) ==
    /\ lissajous = NoLissajous
    /\ lissajous' =
        [len |-> len,
         step |-> lissajous_step(len),
         lissajous_points |-> step_by(lissajous_points(len), lissajous_step(len))]

\* ---- StreamingLinearResampler (dsp/mod.rs 289-347) and MonoResampler
\* (dsp/player.rs 204-252). The position is kept as an exact fraction: the
\* field `position` is its numerator over output_rate, so that adding
\* step = input_rate / output_rate adds input_rate. The residual (`source`)
\* is kept by its length: the values of the samples do not decide what is
\* emitted or dropped.
MaxRate == 4
MaxIncoming == 3
ResamplerRates == 1..MaxRate
ResamplerKinds == {"streaming", "mono"}

NoResampler ==
    [pc |-> "none", kind |-> "none", input_rate |-> 0, output_rate |-> 0,
     position |-> 0, source |-> 0, output |-> <<>>, copied |-> 0,
     held |-> 0, consumed |-> 0]

\* StreamingLinearResampler::new / MonoResampler::new: position 0.0 and an
\* empty residual. (MonoResampler::new refuses a rate of 0; the decoder's
\* rates come from the file's header and DSP_SAMPLE_RATE.)
ResamplerNew(kind, input_rate, output_rate) ==
    /\ resampler = NoResampler
    /\ resampler' = [NoResampler EXCEPT !.pc = "ready", !.kind = kind,
                                        !.input_rate = input_rate,
                                        !.output_rate = output_rate]

is_passthrough(r) == r.input_rate = r.output_rate

\* `while position + 1.0 < source.len()`: the positions at which one output
\* sample each is interpolated, position advancing by step after each.
RECURSIVE interpolate(_, _, _, _)
interpolate(position, len, input_rate, output_rate) ==
    IF position + output_rate < len * output_rate
    THEN <<position>> \o interpolate(position + input_rate, len, input_rate, output_rate)
    ELSE <<>>

\* `position.floor() as usize`
floor_position(position, output_rate) == position \div output_rate

\* StreamingLinearResampler::process / MonoResampler::process past their
\* early returns, on a residual of `len` samples (the incoming ones
\* appended). Vec::drain(0..consumed) panics when consumed is greater than
\* the vector's length: the position is then the advanced one and the
\* residual is as it was.
process(r, len) ==
    LET out == interpolate(r.position, len, r.input_rate, r.output_rate)
        position == r.position + Len(out) * r.input_rate
        consumed == floor_position(position, r.output_rate)
    IN  IF len < 2
        THEN [panicked |-> FALSE, source |-> len, position |-> r.position,
              output |-> <<>>, held |-> len, consumed |-> 0]
        ELSE IF consumed > len
        THEN [panicked |-> TRUE, source |-> len, position |-> position,
              output |-> out, held |-> len, consumed |-> consumed]
        ELSE [panicked |-> FALSE, source |-> len - consumed,
              position |-> position - consumed * r.output_rate,
              output |-> out, held |-> len, consumed |-> consumed]

\* One call of process with `incoming` samples; a panic ends in "panicked".
\* The decoder calls StreamingLinearResampler::process only when the rates
\* differ (mod.rs 505-509).
ResamplerProcess(incoming) ==
    /\ resampler.pc = "ready"
    /\ ~(resampler.kind = "streaming" /\ is_passthrough(resampler))
    /\ LET r == resampler
           p == process(r, r.source + incoming)
       IN  resampler' =
             IF incoming = 0
             THEN [r EXCEPT !.output = <<>>, !.copied = 0, !.held = r.source, !.consumed = 0]
             ELSE IF r.kind = "mono" /\ is_passthrough(r)
             THEN [r EXCEPT !.output = <<>>, !.copied = incoming, !.held = r.source, !.consumed = 0]
             ELSE [r EXCEPT !.pc = IF p.panicked THEN "panicked" ELSE "ready",
                            !.source = p.source, !.position = p.position,
                            !.output = p.output, !.copied = 0,
                            !.held = p.held, !.consumed = p.consumed]

\* ---- One StemStreamDecoder (dsp/mod.rs 352-550) over a file given as the
\* sequence of what the format reader and the codec make of its packets.
\* The position of the resampler is the numerator over output_rate, as
\* above; a pending sample is written as the place in the file of the
\* packet it came from.
MaxFilePackets == 2
MaxMinimum == 2
PacketSamples == {2}

\* What next_packet and decode make of a packet:
\*   audio           decoded to `samples` mono samples
\*   empty           decoded to no sample
\*   other_track     a packet of another track
\*   reset_required  next_packet returns ResetRequired
\*   decode_error    decode returns DecodeError
\*   truncated       decode returns IoError(UnexpectedEof)
\*   read_error      next_packet returns another error
\*   codec_error     decode returns another error
\* Past the last packet next_packet returns IoError(UnexpectedEof).
PacketKinds == {"empty", "other_track", "reset_required", "decode_error",
                "truncated", "read_error", "codec_error"}

Packets == {[kind |-> "audio", samples |-> n] : n \in PacketSamples}
              \cup {[kind |-> k, samples |-> 0] : k \in PacketKinds}

\* The arms of the two `match`es of fill_until taking a DecodeError from
\* decode as any other error.
packet_arm_strict(kind) ==
    CASE kind \in {"other_track", "reset_required", "empty"} -> "continue"
      [] kind = "truncated" -> "eof"
      [] kind \in {"read_error", "codec_error", "decode_error"} -> "err"
      [] OTHER -> "samples"

\* The arms of the two `match`es of fill_until and the two `continue`s
\* after them.
packet_arm(kind) ==
    CASE kind \in {"other_track", "reset_required", "decode_error", "empty"} -> "continue"
      [] kind = "truncated" -> "eof"
      [] kind \in {"read_error", "codec_error"} -> "err"
      [] OTHER -> "samples"

NoStemReturn ==
    [call |-> "none", kind |-> "none", minimum_samples |-> 0, first |-> 1,
     before |-> [eof |-> FALSE, pending |-> 0, source |-> 0, position |-> 0]]

NoStemDecoder ==
    [pc |-> "none", input_rate |-> 0, output_rate |-> 0, file |-> <<>>,
     next |-> 1, pending_samples |-> <<>>, source |-> 0, position |-> 0,
     eof |-> FALSE, ret |-> NoStemReturn]

\* What a call finds when it starts.
StemCall(st, call, minimum_samples) ==
    [call |-> call, kind |-> "none", minimum_samples |-> minimum_samples,
     first |-> st.next,
     before |-> [eof |-> st.eof, pending |-> Len(st.pending_samples),
                 source |-> st.source, position |-> st.position]]

\* StemStreamDecoder::open: nothing read, nothing pending, eof false.
StemOpen(file, input_rate, output_rate) ==
    /\ stem_decoder = NoStemDecoder
    /\ stem_decoder' =
         [NoStemDecoder EXCEPT !.pc = "open", !.file = file,
                               !.input_rate = input_rate,
                               !.output_rate = output_rate,
                               !.ret = [NoStemReturn EXCEPT !.call = "open", !.kind = "ok"]]

\* The loop of StemStreamDecoder::fill_until, packet by packet.
RECURSIVE fill_until_loop(_, _)
fill_until_loop(st, minimum_samples) ==
    IF ~NeedsPacket(st, minimum_samples)
    THEN [st EXCEPT !.ret.kind = "ok"]
    ELSE IF st.next > Len(st.file)
    THEN [st EXCEPT !.eof = TRUE, !.ret.kind = "ok"]
    ELSE LET packet == st.file[st.next]
             read == [st EXCEPT !.next = @ + 1]
             arm == packet_arm(packet.kind)
             mono == [i \in 1..packet.samples |-> st.next]
             p == process(st, st.source + packet.samples)
         IN  CASE arm = "continue" -> fill_until_loop(read, minimum_samples)
               [] arm = "eof" -> [read EXCEPT !.eof = TRUE, !.ret.kind = "ok"]
               [] arm = "err" -> [read EXCEPT !.ret.kind = "err"]
               [] OTHER ->
                    IF is_passthrough(st)
                    THEN fill_until_loop([read EXCEPT !.pending_samples = @ \o mono],
                                         minimum_samples)
                    ELSE IF p.panicked
                    THEN [read EXCEPT !.pc = "panicked", !.source = p.source,
                                      !.position = p.position,
                                      !.ret.kind = "panic"]
                    ELSE fill_until_loop(
                           [read EXCEPT !.source = p.source,
                                        !.position = p.position,
                                        !.pending_samples =
                                           @ \o [i \in 1..Len(p.output) |-> st.next]],
                           minimum_samples)

\* One call of StemStreamDecoder::fill_until.
StemFillUntil(minimum_samples) ==
    /\ stem_decoder.pc = "open"
    /\ stem_decoder' =
         fill_until_loop([stem_decoder EXCEPT
                             !.ret = StemCall(stem_decoder, "fill_until", minimum_samples)],
                         minimum_samples)

\* One call of StemStreamDecoder::pop_frame.
StemPopFrame(frame_size) ==
    /\ stem_decoder.pc = "open"
    /\ stem_decoder' =
         [pop_frame(stem_decoder, frame_size).stem EXCEPT
             !.ret = [StemCall(stem_decoder, "pop_frame", frame_size) EXCEPT !.kind = "ok"]]

\* The four resets at the head of seek leaving the residual and the position
\* of the resampler as they are.
seek_reset_queue_only(st) ==
    [st EXCEPT !.pending_samples = <<>>, !.eof = FALSE]

\* The four resets at the head of StemStreamDecoder::seek (lines 530-533).
seek_reset(st) ==
    [st EXCEPT !.pending_samples = <<>>, !.source = 0, !.position = 0,
               !.eof = FALSE]

\* One call of StemStreamDecoder::seek: the resets, then format.seek, which
\* puts the reader at the packet `target` or fails (the reader is then left
\* where it was).
StemSeek(target, ok) ==
    /\ stem_decoder.pc = "open"
    /\ target \in 1..(Len(stem_decoder.file) + 1)
    /\ stem_decoder' =
         [seek_reset(stem_decoder) EXCEPT
             !.next = IF ok THEN target ELSE @,
             !.ret = [StemCall(stem_decoder, "seek", 0) EXCEPT
                         !.kind = IF ok THEN "ok" ELSE "err"]]

CalcIdle ==
    /\ resolve = NoResolve
    /\ lissajous = NoLissajous
    /\ resampler = NoResampler
    /\ stem_decoder = NoStemDecoder

(***************************************************************************)
(* The specifications.                                                     *)
(***************************************************************************)
Init == StreamInit /\ FlagIdle /\ GainIdle /\ DecoderIdle /\ SetStateIdle /\ SnapIdle /\ StartIdle /\ PlayerIdle /\ ScanIdle /\ CalcIdle

Next ==
    \/ StopDspStream /\ UNCHANGED notStreamVars
    \/ \E w \in Streams, valid \in BOOLEAN :
          StreamAudioMetrics(w, valid) /\ UNCHANGED notStreamVars
    \/ \E w \in Streams : WorkerStep(w) /\ UNCHANGED notStreamVars

Spec == Init /\ [][Next]_vars

\* Every worker is a thread of the blocking pool: it keeps being scheduled,
\* and each call it makes (read_frame included) returns.
FairSpec ==
    Spec /\ \A w \in Streams : WF_vars(WorkerStep(w) /\ UNCHANGED notStreamVars)

FlagSpecInit == StreamInit /\ FlagInit /\ GainIdle /\ DecoderIdle /\ SetStateIdle /\ SnapIdle /\ StartIdle /\ PlayerIdle /\ ScanIdle /\ CalcIdle

FlagNext == ProcessFrameTargets /\ UNCHANGED notFlagVars

FlagSpec == FlagSpecInit /\ [][FlagNext]_vars

GainSpecInit == StreamInit /\ FlagIdle /\ GainInit /\ DecoderIdle /\ SetStateIdle /\ SnapIdle /\ StartIdle /\ PlayerIdle /\ ScanIdle /\ CalcIdle

GainNext ==
    \/ \E sample \in {1} : ApplyGainStep(sample) /\ UNCHANGED notGainVars
    \/ \E buf \in UnitBuffers : ApplyGainRamp(buf) /\ UNCHANGED notGainVars

GainSpec == GainSpecInit /\ [][GainNext]_vars

\* The stem-state map the application shares with its decoders.
FlagDefault ==
    /\ stem_states = default_stem_states
    /\ stem_flags = <<>>
    /\ target_gains = <<>>

\* The times handed to seek.
SeekTimes == {NaN, Infinity(1), Finite(0 - 1), Finite(0), Finite(1)}

\* The stem whose file holds a packet the reader fails on, or "none".
Failing == {"none", "music"}

\* The lengths of the five stems: dialogue and music of any length and the
\* three effect stems of one length; or all five of one length.
StemLengths ==
    {l \in [STEM_IDS -> 0..MaxSamples] :
        l["foley"] = l["sfx"] /\ l["sfx"] = l["ambience"]}

EqualLengths == {[s \in STEM_IDS |-> n] : n \in 0..MaxSamples}

DecoderSpecInit ==
    StreamInit /\ FlagDefault /\ GainIdle /\ DecoderInit(StemLengths) /\ SetStateIdle /\ SnapIdle /\ StartIdle /\ PlayerIdle /\ ScanIdle /\ CalcIdle

DecoderNext ==
    \/ \E failing \in Failing : ReadFrame(failing) /\ UNCHANGED notDecoderVars
    \/ DrainTail /\ UNCHANGED notDecoderVars
    \/ \E seconds \in SeekTimes, failing \in Failing :
          Seek(seconds, failing) /\ UNCHANGED notDecoderVars

DecoderSpec == DecoderSpecInit /\ [][DecoderNext]_vars

\* The stems whose flags the user changes while the frames are read.
RampStemIds == {Text["dx"], Text["music"]}

RampSpecInit ==
    StreamInit /\ FlagDefault /\ GainIdle /\ DecoderInit(EqualLengths) /\ SetStateIdle /\ SnapIdle /\ StartIdle /\ PlayerIdle /\ ScanIdle /\ CalcIdle

\* The files of RampSpec hold no packet the reader fails on.
RampNext ==
    \/ \E failing \in {"none"} : ReadFrame(failing) /\ UNCHANGED notDecoderVars
    \/ DrainTail /\ UNCHANGED notDecoderVars
    \/ \E stem_id \in RampStemIds, is_solo \in BOOLEAN, is_muted \in BOOLEAN :
          SetStemState(stem_id, is_solo, is_muted)
             /\ UNCHANGED notSetVars

RampSpec == RampSpecInit /\ [][RampNext]_vars

\* The command set_stem_state called with any of the stem ids, on the map
\* the application creates.
SetSpecInit ==
    StreamInit /\ FlagDefault /\ GainIdle /\ DecoderIdle /\ SetStateIdle /\ SnapIdle /\ StartIdle /\ PlayerIdle /\ ScanIdle /\ CalcIdle

SetNext ==
    \E stem_id \in StemIdArguments, is_solo \in BOOLEAN, is_muted \in BOOLEAN :
        SetStemState(stem_id, is_solo, is_muted) /\ UNCHANGED notSetVars

SetSpec == SetSpecInit /\ [][SetNext]_vars

\* A decoder reading its frames while set_stem_state is called from another
\* thread; the files hold no packet the reader fails on.
SnapSpecInit ==
    StreamInit /\ FlagDefault /\ GainIdle /\ DecoderInit(EqualLengths) /\ SetStateIdle /\ SnapIdle /\ StartIdle /\ PlayerIdle /\ ScanIdle /\ CalcIdle

SnapNext ==
    \/ \E failing \in {"none"} :
          ReadFrameEnter(failing) /\ UNCHANGED notSnapVars
    \/ SnapshotStemFlags /\ UNCHANGED notSnapVars
    \/ ProcessFrameGains /\ UNCHANGED notSnapVars
    \/ \E stem_id \in RampStemIds, is_solo \in BOOLEAN, is_muted \in BOOLEAN :
          SetStemState(stem_id, is_solo, is_muted) /\ UNCHANGED notSetVars

SnapSpec == SnapSpecInit /\ [][SnapNext]_vars

\* The times that are negative or not finite, and the times handed to
\* stream_audio_metrics.
BadTimes == {NaN, Infinity(1), Infinity(0 - 1), Finite(0 - 1)}

StartTimes == BadTimes \cup {Finite(0), Finite(1)}

\* The two operations that take a time: the command stream_audio_metrics,
\* with stop_dsp_stream and the workers, and seek on a decoder used directly
\* (as the tests of dsp/mod.rs use one) over stems of MaxSamples samples. The
\* commands and such a decoder share no state: a behaviour of TimeSpec is
\* one of the commands or one of the decoder, so that the two are explored
\* side by side and not in every combination.
TimeSpecInit ==
    /\ StreamInit /\ FlagDefault /\ GainIdle
    /\ DecoderInit({[s \in STEM_IDS |-> MaxSamples]})
    /\ SetStateIdle /\ SnapIdle /\ StartIdle /\ PlayerIdle /\ ScanIdle /\ CalcIdle

CommandsOnly == ret.call = "new"

DecoderOnly == stream_generation = 0 /\ ~bad_start

notStartVars == <<flagVars, gainVars, decoderVars, set_result, snapVars,
                  playerVars,
        scanVars, stem_scan, calcVars>>

TimeNext ==
    \/ CommandsOnly /\ StopDspStream /\ UNCHANGED notStreamVars
    \/ \E w \in Streams, start_time \in StartTimes :
          /\ CommandsOnly
          /\ StreamAudioMetrics(w, ~StartRejects(start_time))
          /\ bad_start' = (start_time \in BadTimes)
          /\ UNCHANGED notStartVars
    \/ \E w \in Streams : CommandsOnly /\ WorkerStep(w) /\ UNCHANGED notStreamVars
    \/ DecoderOnly /\ DecoderNext

TimeSpec == TimeSpecInit /\ [][TimeNext]_vars

\* The slices given to a push: a sample is its position in its slice.
Slices == {[i \in 1..n |-> i] : n \in 0..MaxSlice}

PlayerSpecInit ==
    /\ StreamInit /\ FlagIdle /\ GainIdle /\ DecoderIdle /\ SetStateIdle
    /\ SnapIdle /\ StartIdle /\ PlayerInit /\ ScanIdle /\ CalcIdle

PlayerNext ==
    \/ \E interleaved_samples \in Slices :
          PushInterleavedNonblocking(interleaved_samples) /\ UNCHANGED notPlayerVars
    \/ PushSample /\ UNCHANGED notPlayerVars
    \/ PushReturn /\ UNCHANGED notPlayerVars
    \/ MarkProducerFinished /\ UNCHANGED notPlayerVars
    \/ MarkCheckEmpty /\ UNCHANGED notPlayerVars
    \/ \E n \in 1..MaxData : DataCallback(n) /\ UNCHANGED notPlayerVars
    \/ CallbackSample /\ UNCHANGED notPlayerVars
    \/ CallbackEnd /\ UNCHANGED notPlayerVars

PlayerSpec == PlayerSpecInit /\ [][PlayerNext]_vars

\* push_interleaved_blocking called again and again while the device
\* callback runs or not and another thread may set the cancel flag. The
\* producer thread keeps being scheduled; nothing is assumed of the callback.
BlockingNext ==
    \/ \E interleaved_samples \in Slices :
          PushInterleavedBlocking(interleaved_samples) /\ UNCHANGED notPlayerVars
    \/ PushBlockingStep /\ UNCHANGED notPlayerVars
    \/ SetCancel /\ UNCHANGED notPlayerVars
    \/ \E n \in 1..MaxData : DataCallback(n) /\ UNCHANGED notPlayerVars
    \/ CallbackSample /\ UNCHANGED notPlayerVars
    \/ CallbackEnd /\ UNCHANGED notPlayerVars

BlockingSpec ==
    /\ PlayerSpecInit
    /\ [][BlockingNext]_vars
    /\ WF_vars(PushBlockingStep /\ UNCHANGED notPlayerVars)

\* The thread that owns a player pushes its slices with
\* push_interleaved_blocking, then marks the producer finished and pushes
\* nothing more, then waits for the queue to drain, while another thread may
\* set the cancel flag. That thread keeps being scheduled and the device
\* keeps calling the callback.
DrainProducerStep ==
    \/ \E interleaved_samples \in Slices :
          ~producer_finished /\ PushInterleavedBlocking(interleaved_samples)
    \/ PushBlockingStep
    \/ ~producer_finished /\ MarkProducerFinished
    \/ MarkCheckEmpty
    \/ producer_finished /\ WaitUntilDrainedOrCancel
    \/ WaitPoll

CallbackStep ==
    \/ \E n \in 1..MaxData : DataCallback(n)
    \/ CallbackSample
    \/ CallbackEnd

DrainNext ==
    \/ DrainProducerStep /\ UNCHANGED notPlayerVars
    \/ CallbackStep /\ UNCHANGED notPlayerVars
    \/ SetCancel /\ UNCHANGED notPlayerVars

DrainSpec ==
    /\ PlayerSpecInit
    /\ [][DrainNext]_vars
    /\ WF_vars(DrainProducerStep /\ UNCHANGED notPlayerVars)
    /\ WF_vars(CallbackStep /\ UNCHANGED notPlayerVars)

\* The stream whose decoder StreamDecoderSpec holds, and whose player
\* AudioSpec holds.
TheStream == 1

\* What the worker sees of the result of read_frame.
OutcomeOf(r) ==
    CASE r.kind = "frame" -> "some"
      [] r.kind = "none" -> "none"
      [] r.kind = "err" -> "err"

\* decoder.read_frame() in the worker of stream w, on the decoder itself: the
\* worker's alignment_mismatch_detected is the flag of its decoder.
WorkerReadFrame(w) ==
    \E failing \in Failing :
        /\ pc[w] = "read"
        /\ ReadFrame(failing)
        /\ WorkerRead(w, OutcomeOf(ret'), ret'.kind = "frame" /\ decoder_mismatch')

\* The steps of the worker of stream w other than read_frame.
WorkerOwnStep(w) ==
    \/ \E ok \in BOOLEAN : WorkerSetup(w, ok)
    \/ WorkerCheck(w)
    \/ \E ok \in BOOLEAN : WorkerAnalyse(w, ok)
    \/ \E elapsed \in BOOLEAN : WorkerEmit(w, elapsed)
    \/ WorkerAfterLoop(w)
    \/ WorkerComplete(w)

\* One stream started at start_time 0 on stems of any lengths, with its
\* decoder; the stem flags are left at their defaults.
StreamDecoderInit ==
    StreamInit /\ FlagDefault /\ GainIdle /\ DecoderInit(StemLengths) /\ SetStateIdle /\ SnapIdle /\ StartIdle /\ PlayerIdle /\ ScanIdle /\ CalcIdle

StreamDecoderNext ==
    \/ StopDspStream /\ UNCHANGED notStreamVars
    \/ \E valid \in BOOLEAN :
          StreamAudioMetrics(TheStream, valid) /\ UNCHANGED notStreamVars
    \/ WorkerOwnStep(TheStream) /\ UNCHANGED notStreamVars
    \/ WorkerReadFrame(TheStream) /\ UNCHANGED <<gainVars, set_result, snapVars, bad_start, playerVars,
                                              scanVars, stem_scan, calcVars>>

StreamDecoderSpec == StreamDecoderInit /\ [][StreamDecoderNext]_vars

\* `audio_player` of the worker is Some(_). (`audio_resampler` is then Some
\* too: MonoResampler::new fails only for a rate of 0.)
HasPlayer == capacity > 0

\* The worker before its loop, with AudioOutputPlayer::new_default(0.2)
\* (lib.rs 809-846): the player is built after everything that can fail, and
\* its own failure leaves the worker without one.
AudioSetup(w) ==
    \E ok \in BOOLEAN, cap \in Capacities \cup {0} :
        /\ WorkerSetup(w, ok)
        /\ IF ok /\ cap > 0 THEN NewDefault(cap) ELSE UNCHANGED playerVars

\* The analysers and the call of push_interleaved_nonblocking (lib.rs
\* 869-895), which then runs its loop and returns.
AudioAnalyse(w) ==
    \/ \E ok \in BOOLEAN, interleaved \in {[i \in 1..MaxSlice |-> i]} :
          /\ WorkerAnalyse(w, ok)
          /\ IF ok /\ HasPlayer
             THEN PushInterleavedNonblocking(interleaved)
             ELSE UNCHANGED playerVars
    \/ pc[w] = "emit" /\ PushSample /\ UNCHANGED streamVars
    \/ pc[w] = "emit" /\ PushReturn /\ UNCHANGED streamVars

\* mark_producer_finished after the loop (lib.rs 943-945).
AudioFinish(w) ==
    \/ /\ pc[w] = "after_loop" /\ HasPlayer /\ ~producer_finished
       /\ MarkProducerFinished /\ UNCHANGED streamVars
    \/ pc[w] = "after_loop" /\ MarkCheckEmpty /\ UNCHANGED streamVars
    \/ /\ HasPlayer => producer_finished /\ producer.op = "idle"
       /\ WorkerAfterLoop(w) /\ UNCHANGED playerVars

\* One step of the worker thread with its player. Its stems are of one
\* length, every frame gives a slice of MaxSlice samples and the emit
\* interval has elapsed at every frame.
AudioWorkerStep(w) ==
    \/ AudioSetup(w)
    \/ WorkerCheck(w) /\ UNCHANGED playerVars
    \/ \E outcome \in {"some", "none", "err"} :
          WorkerRead(w, outcome, FALSE) /\ UNCHANGED playerVars
    \/ AudioAnalyse(w)
    \/ producer.op = "idle" /\ WorkerEmit(w, TRUE) /\ UNCHANGED playerVars
    \/ AudioFinish(w)
    \/ WorkerComplete(w) /\ UNCHANGED playerVars

\* The device callback of the worker's player, while the worker holds it.
AudioCallback(w) ==
    /\ HasPlayer /\ Running(w)
    /\ \/ \E n \in 1..MaxData : DataCallback(n)
       \/ CallbackSample
       \/ CallbackEnd
    /\ UNCHANGED streamVars

notAudioVars == <<flagVars, gainVars, decoderVars, set_result, snapVars,
                  bad_start,
        scanVars, stem_scan, calcVars>>

\* One stream is started and no command follows: it is never cancelled.
AudioNext ==
    \/ StreamAudioMetrics(TheStream, TRUE) /\ UNCHANGED notStreamVars
    \/ AudioWorkerStep(TheStream) /\ UNCHANGED notAudioVars
    \/ AudioCallback(TheStream) /\ UNCHANGED notAudioVars

\* The worker is a thread of the blocking pool and keeps being scheduled.
\* Nothing is assumed of the audio device: its callback may never run.
AudioSpec ==
    /\ Init
    /\ [][AudioNext]_vars
    /\ WF_vars(AudioWorkerStep(TheStream) /\ UNCHANGED notAudioVars)

\* ---- ScanSpec: a scan, called directly with any set of path keys or by
\* generate_static_map, and its workers.
Outcomes == {"ok", "err", "panic"}

notScanVars == <<streamVars, flagVars, gainVars, decoderVars, set_result,
                 snapVars, bad_start, playerVars, stem_scan, calcVars>>

ScanSpecInit ==
    StreamInit /\ FlagIdle /\ GainIdle /\ DecoderIdle /\ SetStateIdle /\ SnapIdle /\ StartIdle /\ PlayerIdle /\ ScanIdle /\ CalcIdle

ScanStep == ScanSpawn \/ ScanReceive \/ ScanJoin \/ GenerateStaticMapReturn

StemWorkerStep(stem) ==
    \/ WorkerStarted(stem)
    \/ \E length \in PacketSeconds : WorkerPacket(stem, length)
    \/ \E outcome \in Outcomes : WorkerEnd(stem, outcome)

ScanNext ==
    \/ (\E keys \in SUBSET StemNames : ScanCall(keys)) /\ UNCHANGED notScanVars
    \/ GenerateStaticMap /\ UNCHANGED notScanVars
    \/ ScanStep /\ UNCHANGED notScanVars
    \/ (\E stem \in StemNames : StemWorkerStep(stem)) /\ UNCHANGED notScanVars

ScanSpec == ScanSpecInit /\ [][ScanNext]_vars

\* ---- ScanFairSpec: the same, with the calling thread always getting to run.
\* A worker may take any time over its file: no worker step is fair.
ScanFairSpec ==
    ScanSpecInit /\ [][ScanNext]_vars /\ WF_vars(ScanStep /\ UNCHANGED notScanVars)

\* ---- StemScanSpec: one scan_stem call over a file of any sample rate cut
\* into packets in any way.
notStemScanVars == <<streamVars, flagVars, gainVars, decoderVars, set_result,
                     snapVars, bad_start, playerVars, scanVars, calcVars>>

StemScanNext ==
    \/ (\E rate \in SampleRates, points \in PointsPerSecond :
            ScanStem(rate, points)) /\ UNCHANGED notStemScanVars
    \/ (\E length \in 1..MaxMono : StemPacket(length)) /\ UNCHANGED notStemScanVars
    \/ StemEof /\ UNCHANGED notStemScanVars
    \/ StemFails /\ UNCHANGED notStemScanVars

StemScanSpec == ScanSpecInit /\ [][StemScanNext]_vars

\* ---- ResolveSpec: resolve_required_stems over the maps a caller may pass.
\* Each key of ResolveKeys is absent, or holds white space, or holds a path
\* made of a space and the key's own characters.
ResolveKeys == {<<"D", "X">>, <<"d", "x">>,
                <<"d", "i", "a", "l", "o", "g", "u", "e", "_", "r", "a", "w">>,
                <<"D", "X", "_", "R", "A", "W">>,
                <<"m", "u", "s", "i", "c">>,
                <<"b", "a", "c", "k", "g", "r", "o", "u", "n", "d", "_", "r", "a", "w">>,
                <<"e", "f", "f", "e", "c", "t", "s", "_", "r", "a", "w">>}

PathsOf(key) == {<<" ">>, <<" ">> \o key}

StemPathMaps ==
    UNION {{m \in [keys -> UNION {PathsOf(k) : k \in keys}] :
                \A k \in keys : m[k] \in PathsOf(k)} : keys \in SUBSET ResolveKeys}

notResolveVars == <<streamVars, flagVars, gainVars, decoderVars, set_result,
                    snapVars, bad_start, playerVars, scanVars, stem_scan,
                    lissajous, resampler, stem_decoder>>

ResolveNext ==
    \/ (\E stem_paths \in StemPathMaps : ResolveRequiredStems(stem_paths))
            /\ UNCHANGED notResolveVars
    \/ ResolveStem /\ UNCHANGED notResolveVars

ResolveSpec == ScanSpecInit /\ [][ResolveNext]_vars

\* ---- LissajousSpec: the points emitted for one frame, of every length a
\* decoder of DSP_FRAME_SIZE may return (a last frame may be short).
notLissajousVars == <<streamVars, flagVars, gainVars, decoderVars, set_result,
                      snapVars, bad_start, playerVars, scanVars, stem_scan,
                      resolve, resampler, stem_decoder>>

LissajousNext ==
    (\E len \in 1..DSP_FRAME_SIZE : SubsampleLissajous(len))
        /\ UNCHANGED notLissajousVars

LissajousSpec == ScanSpecInit /\ [][LissajousNext]_vars

\* ---- ResamplerSpec: one resampler of either kind, of any pair of rates up
\* to MaxRate, fed packets of up to MaxIncoming samples.
notResamplerVars == <<streamVars, flagVars, gainVars, decoderVars, set_result,
                      snapVars, bad_start, playerVars, scanVars, stem_scan,
                      resolve, lissajous, stem_decoder>>

ResamplerNext ==
    \/ (\E kind \in ResamplerKinds, input_rate, output_rate \in ResamplerRates :
            ResamplerNew(kind, input_rate, output_rate))
            /\ UNCHANGED notResamplerVars
    \/ (\E incoming \in 0..MaxIncoming : ResamplerProcess(incoming))
            /\ UNCHANGED notResamplerVars

ResamplerSpec == ScanSpecInit /\ [][ResamplerNext]_vars

\* ---- StemSpec: one stem decoder over every file of up to MaxFilePackets
\* packets, at the rates StemRates, called in any order.
StemRates == {<<1, 1>>, <<1, 2>>, <<3, 2>>, <<3, 1>>}

StemFiles == UNION {[1..n -> Packets] : n \in 0..MaxFilePackets}

notStemVars == <<streamVars, flagVars, gainVars, decoderVars, set_result,
                 snapVars, bad_start, playerVars, scanVars, stem_scan,
                 resolve, lissajous, resampler>>

StemNext ==
    \/ (\E file \in StemFiles, rates \in StemRates :
            StemOpen(file, rates[1], rates[2]))
            /\ UNCHANGED notStemVars
    \/ (\E minimum_samples \in 0..MaxMinimum : StemFillUntil(minimum_samples))
            /\ UNCHANGED notStemVars
    \/ (\E frame_size \in 1..MaxMinimum : StemPopFrame(frame_size))
            /\ UNCHANGED notStemVars
    \/ (\E target \in 1..(MaxFilePackets + 1), ok \in BOOLEAN : StemSeek(target, ok))
            /\ UNCHANGED notStemVars

StemSpec == ScanSpecInit /\ [][StemNext]_vars

(***************************************************************************)
(* Properties of the streaming commands.                                   *)
(***************************************************************************)
\* The values of the events of the given kinds in the log of stream w.
EventsOf(w, kinds) == SelectSeq(events[w], LAMBDA e : e.event \in kinds)

FrameEvents(w) == EventsOf(w, {"dsp-frame"})

Count(w, kind) == Len(EventsOf(w, {kind}))

\* The dsp-frame and dsp-complete events stream w emitted after a
\* stop_dsp_stream call had returned.
LateEvents(w) ==
    SelectSeq(events[w],
              LAMBDA e : e.after_stop /\ e.event \in {"dsp-frame", "dsp-complete"})

Started(w) == pc[w] # "idle"

\* C1 as stated: once stop_dsp_stream has returned, the worker that was
\* running emits no further dsp-frame and no dsp-complete event.
C1_NoEventAfterStop == \A w \in Streams : Len(LateEvents(w)) = 0

\* C1 amended: after stop_dsp_stream has returned, the worker that was running
\* emits at most one further dsp-frame or dsp-complete event, that of the loop
\* iteration that had passed its generation check before the stop; a worker
\* that had not passed a generation check emits none.
C1_AtMostOneEventAfterStop ==
    \A w \in Streams :
        /\ Len(LateEvents(w)) <= 1
        /\ stopped[w] = "before_check" => Len(LateEvents(w)) = 0

\* A worker stopped in mid-iteration has emitted its one late event and gone.
C1_Witness ==
    \E w \in Streams :
        /\ stopped[w] = "in_iteration"
        /\ pc[w] = "done"
        /\ loop_exit[w] = "generation"
        /\ Len(LateEvents(w)) = 1

\* A running worker whose captured generation is not the counter's value.
Stale(w) == Running(w) /\ stream_generation # my_gen[w]

\* C2: a worker whose captured generation differs from the counter leaves the
\* loop at its generation check without reading or emitting a frame, and reads
\* and emits no frame once it has left; a stale worker stays stale until it
\* has ended, and no worker stays stale for ever: every one of them ends.
C2_StaleWorkerLeaves ==
    /\ [][\A w \in Streams :
            (pc[w] = "check" /\ stream_generation # my_gen[w] /\ pc'[w] # pc[w])
                => /\ pc'[w] = "after_loop"
                   /\ events'[w] = events[w]
                   /\ frame_index'[w] = frame_index[w]]_vars
    /\ [][\A w \in Streams :
            loop_exit[w] = "generation"
                => /\ frame_index'[w] = frame_index[w]
                   /\ Len(FrameEvents(w))' = Len(FrameEvents(w))
                   /\ pc'[w] \in {"after_loop", "complete", "done"}]_vars
    /\ [][\A w \in Streams : Stale(w) => (Stale(w)' \/ pc'[w] = "done")]_vars
    /\ \A w \in Streams : []<>(~Stale(w))

\* An older worker has left its loop by the generation check and ended while a
\* newer stream is running.
C2_Witness ==
    \E w, v \in Streams :
        /\ Started(w) /\ Running(v)
        /\ my_gen[w] < my_gen[v]
        /\ loop_exit[w] = "generation"
        /\ frame_index[w] >= 1
        /\ pc[w] = "done"

\* C3: dsp-complete is emitted only by a worker whose read_frame returned
\* None; a worker that left by the generation check emits none.
C3_CompleteOnlyAtEof ==
    \A w \in Streams :
        /\ Count(w, "dsp-complete") > 0 => loop_exit[w] = "eof"
        /\ loop_exit[w] = "generation" => Count(w, "dsp-complete") = 0

\* One stream was cancelled after emitting frames and ended without
\* dsp-complete; another one reached EOF and emitted it.
C3_Witness ==
    \E w, v \in Streams :
        /\ pc[w] = "done" /\ loop_exit[w] = "generation"
        /\ Len(FrameEvents(w)) >= 1
        /\ Count(w, "dsp-complete") = 0
        /\ Count(v, "dsp-complete") = 1

\* C4: the generation counter never decreases, no two streams capture the
\* same generation, and at most one stream's generation is the current one.
C4_GenerationsUnique ==
    /\ [][stream_generation' >= stream_generation]_vars
    /\ [](\A w, v \in Streams :
            (Started(w) /\ Started(v) /\ w # v) => my_gen[w] # my_gen[v])
    /\ [](Cardinality({w \in Streams :
                          Started(w) /\ my_gen[w] = stream_generation}) <= 1)

\* Two streams have been started and both workers are running.
C4_Witness ==
    \E w, v \in Streams :
        /\ w # v /\ Running(w) /\ Running(v)
        /\ my_gen[v] = stream_generation
        /\ my_gen[w] < my_gen[v]

\* C5: in every stream the frame_index values of the dsp-frame events are
\* strictly increasing and the first one is 1, whatever the other streams did.
C5_FrameIndexFromOne ==
    \A w \in Streams :
        LET f == FrameEvents(w)
        IN /\ Len(f) > 0 => f[1].value = 1
           /\ \A i \in 1..(Len(f) - 1) : f[i].value < f[i + 1].value

\* A stream emitted two frames and a later stream emitted its first one.
C5_Witness ==
    \E w, v \in Streams :
        /\ w < v
        /\ Len(FrameEvents(w)) >= 2
        /\ Len(FrameEvents(v)) >= 1

\* C6: a stream that ended at natural EOF emitted exactly one dsp-complete;
\* no stream emits more than one; no dsp-frame follows a dsp-complete; and the
\* dsp-frame events are in the order the frames were processed.
C6_CompleteOnceAndLast ==
    \A w \in Streams :
        /\ Count(w, "dsp-complete") <= 1
        /\ (pc[w] = "done" /\ loop_exit[w] = "eof") => Count(w, "dsp-complete") = 1
        /\ \A i, j \in DOMAIN events[w] :
              (i < j /\ events[w][i].event = "dsp-complete")
                  => events[w][j].event # "dsp-frame"
        /\ \A i, j \in DOMAIN events[w] :
              (i < j /\ events[w][i].event = "dsp-frame"
                     /\ events[w][j].event = "dsp-frame")
                  => events[w][i].value < events[w][j].value

\* A stream emitted two frames, reached EOF and emitted dsp-complete last.
C6_Witness ==
    \E w \in Streams :
        /\ pc[w] = "done" /\ loop_exit[w] = "eof"
        /\ Len(FrameEvents(w)) >= 2
        /\ events[w][Len(events[w])].event = "dsp-complete"

ErrorExit(w) == loop_exit[w] \in {"read_error", "loudness_error"}

\* C7: an error of read_frame or of the loudness analyser makes the worker
\* emit one dsp-error, as its last event, and end; dsp-error and dsp-complete
\* never both occur in one stream.
C7_ErrorEndsStream ==
    \A w \in Streams :
        /\ ErrorExit(w) =>
              /\ pc[w] = "done"
              /\ Count(w, "dsp-error") = 1
              /\ events[w][Len(events[w])].event = "dsp-error"
        /\ Count(w, "dsp-error") > 0 => ErrorExit(w)
        /\ Count(w, "dsp-error") = 0 \/ Count(w, "dsp-complete") = 0

\* One stream ended by a read_frame error after a frame, with a stem-length
\* mismatch pending; another ended by a loudness error.
C7_Witness ==
    \E w, v \in Streams :
        /\ loop_exit[w] = "read_error"
        /\ alignment_mismatch_detected[w]
        /\ Len(FrameEvents(w)) >= 1
        /\ loop_exit[v] = "loudness_error"

(***************************************************************************)
(* Properties of the stem flags.                                           *)
(***************************************************************************)
TargetsTaken == DOMAIN target_gains # {}

\* C8: when at least one stem is solo, every solo stem has target gain 1,
\* muted or not, and every other stem has target gain 0.
C8_SoloOverridesMute ==
    (TargetsTaken /\ \E s \in STEM_IDS : stem_flags[s].is_solo)
        => \A s \in STEM_IDS :
              target_gains[s] = (IF stem_flags[s].is_solo THEN 1 ELSE 0)

\* A stem that is solo and muted got gain 1 and an unmuted stem got gain 0.
C8_Witness ==
    /\ TargetsTaken
    /\ \E s, u \in STEM_IDS :
          /\ stem_flags[s].is_solo /\ stem_flags[s].is_muted
          /\ target_gains[s] = 1
          /\ ~stem_flags[u].is_solo /\ ~stem_flags[u].is_muted
          /\ target_gains[u] = 0

\* C9: when no stem of the map is solo, a stem's target gain is 0 if the map
\* holds it as muted and 1 otherwise, a stem the map does not hold included.
C9_MuteWithoutSolo ==
    (TargetsTaken /\ \A s \in DOMAIN stem_states : ~stem_states[s].is_solo)
        => \A s \in STEM_IDS :
              target_gains[s] =
                 (IF s \in DOMAIN stem_states /\ stem_states[s].is_muted
                  THEN 0 ELSE 1)

\* No stem is solo, one is muted (gain 0), one is missing from the map
\* (gain 1) and one is present and unmuted (gain 1).
C9_Witness ==
    /\ TargetsTaken
    /\ \A s \in DOMAIN stem_states : ~stem_states[s].is_solo
    /\ \E s, u, v \in STEM_IDS :
          /\ s \in DOMAIN stem_states /\ stem_states[s].is_muted
          /\ target_gains[s] = 0
          /\ u \notin DOMAIN stem_states /\ target_gains[u] = 1
          /\ v \in DOMAIN stem_states /\ ~stem_states[v].is_muted
          /\ target_gains[v] = 1

(***************************************************************************)
(* Properties of the gain ramp.                                            *)
(***************************************************************************)
\* One sample's move from gain `before` to gain `after`: the distance to the
\* target shrinks by at least the step, the gain moves in the direction of
\* the target, and it is the target when that was within one step.
MovesToward(before, after) ==
    /\ Abs(after - target_gain) <= Max(0, Abs(before - target_gain) - step)
    /\ target_gain > before => after > before
    /\ target_gain < before => after < before
    /\ Abs(target_gain - before) <= step => after = target_gain

\* The gain before sample i of the last apply_gain_ramp call.
GainBefore(i) == IF i = 1 THEN previous_gain ELSE buffer[i - 1]

\* C10: one sample of apply_gain_step, and each sample of apply_gain_ramp,
\* moves the gain toward the target as MovesToward says.
C10_GainMovesTowardTarget ==
    /\ last_call = "step" => MovesToward(previous_gain, current_gain)
    /\ last_call = "ramp" =>
          /\ \A i \in 1..Len(buffer) : MovesToward(GainBefore(i), buffer[i])
          /\ Len(buffer) > 0 => current_gain = buffer[Len(buffer)]

\* A ramp call moved the gain by one step on its first sample, without
\* reaching the target, and snapped to the target on a later sample.
C10_Witness ==
    /\ last_call = "ramp"
    /\ Len(buffer) >= 2
    /\ Abs(target_gain - previous_gain) > step
    /\ Abs(buffer[1] - previous_gain) = step
    /\ buffer[1] # target_gain
    /\ current_gain = target_gain

(***************************************************************************)
(* Properties of the multi-stem decoder.                                   *)
(***************************************************************************)
\* The target gain of stem s, in steps, in the frame of the last call.
FrameTarget(s) == TargetsInSteps(stem_flags)[s]

\* The gain `gain` moved toward `target` by n steps, stopping at the target.
Approach(gain, target, n) ==
    IF Abs(target - gain) <= n * gain_step_per_sample THEN target
    ELSE gain + n * gain_step_per_sample * Signum(target - gain)

\* C11 as stated: in every read_frame or drain_tail call each stem's runtime
\* gain changes by at most one step per sample of the frame the call
\* returns, so a call whose frame holds no sample changes no gain; and no
\* other step changes a gain. (A runtime gain changes only in a call that
\* returns a frame, and ret' is then that call's result.)
C11_GainStepPerSample ==
    [][\A s \in STEM_IDS :
          Abs(stem_runtime_gains'[s] - stem_runtime_gains[s])
             <= FrameLen(ret') * gain_step_per_sample]_vars

\* C12 as stated: a call that returns a frame of n samples moves every
\* stem's runtime gain n steps toward the target of the snapshot, stopping at
\* the target (so a gain at its target stays there); and once
\* round(sample_rate * 0.005) samples have been processed with unchanged
\* targets every runtime gain is its target.
C12_LinearFadeToTarget ==
    /\ [][stem_runtime_gains' # stem_runtime_gains
            => \A s \in STEM_IDS :
                  stem_runtime_gains'[s] =
                     Approach(stem_runtime_gains[s], FrameTarget(s)', FrameLen(ret'))]_vars
    /\ [](held >= RoundDiv(TargetSampleRate * STEM_FADE_MS, 1000)
            => \A s \in STEM_IDS : stem_runtime_gains[s] = FrameTarget(s))

\* The buffer of stem s in frame f.
FrameBuffer(f, s) ==
    CASE s = "dx" -> f.dx_raw
      [] s = "music" -> f.music_raw
      [] s = "foley" -> f.foley_raw
      [] s = "sfx" -> f.sfx_raw
      [] s = "ambience" -> f.ambience_raw

\* The samples a stem has not delivered yet: queued or still in its file.
Remaining(st) == Len(st.pending_samples) + st.len - st.pos

\* The samples the step took from stem s.
Popped(s) == Remaining(stems[s]) - Remaining(stems'[s])

\* The step is a read_frame call (one that changed anything).
ReadStep == ret'.call = "read_frame" /\ (ret' # ret \/ stems' # stems)

\* C14: in every frame read_frame or drain_tail returns, dialogue_raw,
\* background_raw and the five stem buffers have one length.
C14_BuffersOfOneLength ==
    ret.kind = "frame" =>
        LET f == ret.frame
        IN /\ Len(f.background_raw) = Len(f.dialogue_raw)
           /\ \A s \in STEM_IDS : Len(FrameBuffer(f, s)) = Len(f.dialogue_raw)

\* A frame of two samples or more in which one stem had run out (its last
\* sample is padding) while another still delivered a sample.
C14_Witness ==
    /\ ret.kind = "frame"
    /\ FrameLen(ret) >= 2
    /\ \E s, u \in STEM_IDS :
          /\ FrameBuffer(ret.frame, s)[FrameLen(ret)] = 0
          /\ FrameBuffer(ret.frame, u)[FrameLen(ret)] # 0

\* C15: a read_frame call whose fills succeed returns None exactly when no
\* stem has a sample left, queued or in its file, and every stem is then
\* finished; otherwise it returns a frame of 1 to frame_size samples; and
\* once read_frame has returned None every read_frame call returns None
\* until a seek is accepted.
C15_NoneIffAllFinished ==
    [][ReadStep =>
          /\ ended => ret'.kind = "none"
          /\ ret'.kind = "none" =>
                /\ \A s \in STEM_IDS : Remaining(stems[s]) = 0
                /\ \A s \in STEM_IDS : is_finished(stems'[s])
          /\ (ret'.kind # "err" /\ \A s \in STEM_IDS : Remaining(stems[s]) = 0)
                => ret'.kind = "none"
          /\ ret'.kind = "frame" => FrameLen(ret') \in 1..FrameSize]_vars

\* read_frame returned two frames and then None.
C15_Witness ==
    /\ ret.call = "read_frame" /\ ret.kind = "none"
    /\ ended
    /\ frames_returned >= 2

(***************************************************************************)
(* Properties of a stream with its decoder.                                *)
(***************************************************************************)
\* Every stem holds n samples.
AllStemsHold(n) == \A s \in STEM_IDS : stems[s].len = n

\* The total_frames of the dsp-complete events of stream w.
TotalFrames(w) ==
    {events[w][i].value :
        i \in {j \in DOMAIN events[w] : events[w][j].event = "dsp-complete"}}

FloorDiv(a, b) == a \div b

CeilDiv(a, b) == (a + b - 1) \div b

\* C16 as stated: for stems of N samples each, total_frames is
\* floor(N / frame_size).
C16_TotalFramesFloor ==
    \A n \in 0..MaxSamples :
        AllStemsHold(n) => TotalFrames(TheStream) \subseteq {FloorDiv(n, FrameSize)}

\* C16 amended: for stems of N samples each, total_frames is
\* ceil(N / frame_size): the last, shorter frame is read and counted.
C16_TotalFramesCeil ==
    \A n \in 0..MaxSamples :
        AllStemsHold(n) => TotalFrames(TheStream) \subseteq {CeilDiv(n, FrameSize)}

\* A stream over stems of one length that is not a multiple of frame_size
\* and longer than a frame has emitted dsp-complete.
C16_Witness ==
    /\ \E n \in 0..MaxSamples :
          AllStemsHold(n) /\ n > FrameSize /\ n % FrameSize # 0
    /\ TotalFrames(TheStream) # {}
    /\ pc[TheStream] = "done"

\* C17: a read_frame call sets alignment_mismatch_detected exactly when it
\* took fewer samples from one stem than from another, and no step resets
\* or otherwise changes the flag; the samples of a returned frame beyond
\* those taken from a stem are zero; and a worker that has left its loop by
\* a break has emitted the warning, once, exactly if the flag is set.
C17_MismatchFlag ==
    /\ [][IF ReadStep
          THEN /\ decoder_mismatch' =
                     (decoder_mismatch
                        \/ \E s, u \in STEM_IDS : Popped(s) < Popped(u))
               /\ ret'.kind = "frame" =>
                     \A s \in STEM_IDS : \A i \in 1..FrameLen(ret') :
                         i > Popped(s) => FrameBuffer(ret'.frame, s)[i] = 0
          ELSE decoder_mismatch' = decoder_mismatch]_vars
    /\ [](alignment_mismatch_detected[TheStream] = decoder_mismatch)
    /\ [](LET w == TheStream
          IN /\ Count(w, "DSP_WARNING") <= 1
             /\ Count(w, "DSP_WARNING") = 1 =>
                   decoder_mismatch /\ pc[w] \in {"complete", "done"}
             /\ (pc[w] \in {"complete", "done"}
                    /\ loop_exit[w] \in {"eof", "generation"} /\ decoder_mismatch)
                   => Count(w, "DSP_WARNING") = 1)

\* A stream whose dialogue is shorter than its music has ended at EOF with
\* the flag set and the warning emitted before dsp-complete.
C17_Witness ==
    /\ stems["dx"].len < stems["music"].len
    /\ stems["dx"].len > 0
    /\ pc[TheStream] = "done" /\ loop_exit[TheStream] = "eof"
    /\ decoder_mismatch
    /\ Count(TheStream, "DSP_WARNING") = 1
    /\ Count(TheStream, "dsp-complete") = 1

(***************************************************************************)
(* Properties of the shared stem-state map.                                *)
(***************************************************************************)
\* C13: process_frame takes one snapshot of the map per frame, and it is the
\* map as the set_stem_state calls completed so far have left it; the frame
\* carries that snapshot and every stem's gain moves, for all the samples of
\* the frame, toward the target computed from it, whatever set_stem_state
\* writes meanwhile; and a snapshot differs from the map only by calls that
\* completed after it was taken, which the next frame's snapshot includes.
C13_OneSnapshotPerFrame ==
    /\ [][(frame_pc = "popped" /\ frame_pc' = "snapshot")
            => /\ stem_flags' = from_map(stem_states)
               /\ target_gains' = from_flags(stem_flags')]_vars
    /\ [][frame_pc = "snapshot" => stem_flags' = stem_flags]_vars
    /\ [][(frame_pc = "snapshot" /\ frame_pc' = "idle")
            => /\ ret'.kind = "frame"
               /\ ret'.frame.stem_flags = stem_flags
               /\ \A s \in STEM_IDS :
                     stem_runtime_gains'[s] =
                        Approach(stem_runtime_gains[s], FrameTarget(s),
                                 FrameLen(ret'))]_vars
    /\ []((frame_pc = "snapshot" /\ stem_flags # from_map(stem_states))
            => set_result.calls > snap_calls /\ set_result.result = "ok")

\* A frame has been returned whose snapshot is no longer the map: a
\* set_stem_state call completed between the snapshot and the return and
\* changed a target, and the frame's gains moved toward the old target.
C13_Witness ==
    /\ frame_pc = "idle"
    /\ ret.kind = "frame"
    /\ ret.frame.stem_flags = stem_flags
    /\ set_result.calls > snap_calls
    /\ from_flags(stem_flags) # from_flags(from_map(stem_states))
    /\ \E s \in STEM_IDS :
          /\ from_flags(stem_flags)[s] = 0
          /\ from_flags(from_map(stem_states))[s] = 1
          /\ stem_runtime_gains[s] < UnitGain

\* The stem each argument of StemIdArguments names once white space at its
\* ends is dropped and its letters are lower-cased, or "invalid".
NamedStem(stem_id) ==
    CASE stem_id \in {Text["dx"], <<" ", "D", "X", "\t">>} -> "dx"
      [] stem_id \in {Text["music"], <<"M", "u", "s", "i", "c">>} -> "music"
      [] stem_id \in {Text["sfx"], <<"s", "f", "x", "\n">>} -> "sfx"
      [] stem_id = Text["foley"] -> "foley"
      [] stem_id = Text["ambience"] -> "ambience"
      [] OTHER -> "invalid"

\* C18: a set_stem_state call whose stem id names none of the five stems
\* returns an error and leaves the map as it was; a call with a valid id
\* returns Ok and replaces the entry of that stem, no other; and the keys of
\* the map stay the five stem ids.
C18_SetStemState ==
    /\ [][set_result' # set_result =>
            LET call == set_result'
                stem == NamedStem(call.stem_id)
            IN IF stem = "invalid"
               THEN call.result = "err" /\ stem_states' = stem_states
               ELSE /\ call.result = "ok"
                    /\ stem_states' =
                          [stem_states EXCEPT ![stem] =
                              [is_solo |-> call.is_solo, is_muted |-> call.is_muted]]]_vars
    /\ [](DOMAIN stem_states = STEM_IDS)

\* A call with an id in upper case and white space has set the dialogue
\* stem's flags, and a later call with an invalid id has returned an error.
C18_Witness ==
    /\ set_result.calls = 2
    /\ set_result.result = "err"
    /\ set_result.stem_id = Text["dx_raw"]
    /\ stem_states["dx"] = [is_solo |-> TRUE, is_muted |-> TRUE]
    /\ \A s \in STEM_IDS \ {"dx"} : stem_states[s] = DefaultStemState

(***************************************************************************)
(* Properties of the start time.                                           *)
(***************************************************************************)
\* C19: a stream_audio_metrics call with a start_time that is negative or
\* not finite changes neither the generation counter nor any stream: no
\* worker is spawned, a running worker keeps its generation and no event is
\* emitted; and a seek with such a time returns InvalidConfig and leaves the
\* decoder, its five stems included, as it was.
C19_BadTimeRejected ==
    /\ [][(bad_start' /\ ~bad_start) => UNCHANGED streamVars]_vars
    /\ [][(ret'.call = "seek" /\ ret' # ret /\ ret'.seconds \in BadTimes)
            => /\ ret'.kind = "err" /\ ret'.error = "InvalidConfig"
               /\ UNCHANGED <<stems, stem_runtime_gains, decoder_mismatch>>]_vars

\* A call with a bad start time has returned while a stream that had emitted
\* a frame was running, and that stream's generation is still the current
\* one.
C19_Witness ==
    /\ bad_start
    /\ \E w \in Streams :
          /\ pc[w] = "read"
          /\ my_gen[w] = stream_generation
          /\ Len(FrameEvents(w)) >= 1
          /\ stopped[w] = "no"

(***************************************************************************)
(* Properties of the audio output queue.                                   *)
(***************************************************************************)
\* The last m elements of a sequence.
LastOf(q, m) == SubSeq(q, Len(q) - m + 1, Len(q))

\* The state of a push_interleaved_nonblocking call in progress: the
\* positions kept are increasing positions already passed; the samples kept
\* that are still queued are at the end of the queue, in input order; with
\* no pop since the call, the kept ones are exactly the first min(f, passed)
\* and the queue has grown by them; and the call has a step to take,
\* whatever the queue holds.
NonblockingPush ==
    LET k == Len(producer.kept)
        passed == producer.pos - 1
        m == Min(k, Len(queue))
    IN  /\ \A i \in 1..k : producer.kept[i] \in 1..passed
        /\ \A i \in 1..(k - 1) : producer.kept[i] < producer.kept[i + 1]
        /\ LastOf(queue, m)
              = [i \in 1..m |-> producer.samples[LastOf(producer.kept, m)[i]]]
        /\ ~producer.popped
              => /\ producer.kept = [i \in 1..Min(producer.free, passed) |-> i]
                 /\ Len(queue) = (capacity - producer.free) + k
        /\ ENABLED (PushSample \/ PushReturn)

\* C20: push_interleaved_nonblocking never waits; the samples it enqueues
\* are enqueued in input order, each one exactly when the queue is not full
\* at its turn, the others being dropped; with no pop during the call the
\* first min(f, len) samples are enqueued, f being the free slots at the
\* call; and the queue never holds more than `capacity` samples.
C20_PushNonblocking ==
    /\ Len(queue) <= capacity
    /\ producer.op = "nonblocking" => NonblockingPush

\* A call of push_interleaved_nonblocking has passed its whole slice with no
\* pop in between, has enqueued a sample and has dropped one.
C20_Witness ==
    /\ producer.op = "nonblocking"
    /\ producer.pos > Len(producer.samples)
    /\ ~producer.popped
    /\ producer.free >= 1
    /\ Len(producer.kept) = producer.free
    /\ Len(producer.samples) > producer.free

(***************************************************************************)
(* Properties of the worker with its player.                               *)
(***************************************************************************)
\* The worker of TheStream has returned having entered its loop.
LeftLoop == pc[TheStream] = "done" /\ loop_exit[TheStream] # "none"

Blocking == producer.op \in {"blocking_check", "blocking_push"}

\* A push_interleaved_blocking call in progress has enqueued every sample
\* it has passed, once and in input order, and those still queued are at the
\* end of the queue.
BlockingPush ==
    LET k == Len(producer.kept)
        m == Min(k, Len(queue))
    IN  /\ producer.kept = [i \in 1..(producer.pos - 1) |-> i]
        /\ producer.pos <= Len(producer.samples) + 1
        /\ LastOf(queue, m)
              = [i \in 1..m |-> producer.samples[LastOf(producer.kept, m)[i]]]

\* A step of the call: it returns only past the last sample or at the test
\* of a cancel flag that is set, and then at once, pushing nothing; a push
\* on a full queue leaves the queue and the position as they were.
BlockingStep ==
    /\ (Blocking /\ producer'.op = "idle")
          => /\ queue' = queue
             /\ \/ producer.pos > Len(producer.samples)
                \/ producer.op = "blocking_check" /\ cancel
    /\ (producer.op = "blocking_check" /\ cancel /\ producer' # producer
         /\ producer.pos <= Len(producer.samples))
          => producer'.op = "idle"
    /\ (producer.op = "blocking_push" /\ producer' # producer)
          => IF Len(queue) = capacity
             THEN queue' = queue /\ producer'.pos = producer.pos
             ELSE /\ queue' = Append(queue, producer.samples[producer.pos])
                  /\ producer'.pos = producer.pos + 1

\* C22: push_interleaved_blocking enqueues every sample exactly once and in
\* input order, retrying a sample while the queue is full; it returns once
\* the last sample is enqueued, or at once, enqueuing nothing more, when it
\* finds the cancel flag set; and if the queue is not full again and again
\* (the consumer keeps popping), every call returns.
C22_PushBlocking ==
    /\ [](Blocking => BlockingPush)
    /\ [][BlockingStep]_vars
    /\ ([]<>(Len(queue) < capacity)) => []<>(~Blocking)

\* A call has found the queue full, kept its sample, and after a pop has
\* enqueued it: it is past its whole slice with the cancel flag never set.
C22_Witness ==
    /\ producer.op = "blocking_check"
    /\ producer.pos > Len(producer.samples)
    /\ Len(producer.samples) > capacity
    /\ ~cancel

(***************************************************************************)
(* Properties of `drained`.                                                *)
(***************************************************************************)
\* C23: `drained` is set only in a step that finds producer_finished set and
\* the queue empty, and once set it stays set; once the producer is marked
\* finished (and pushes nothing more) `drained` is eventually set, so that
\* a wait_until_drained_or_cancel in progress returns; and a test of the
\* wait that finds the cancel flag set returns.
C23_Drained ==
    /\ [][/\ (~drained /\ drained') => (producer_finished /\ queue' = <<>>)
          /\ drained => drained'
          /\ (producer.op = "waiting" /\ producer' # producer)
               => (cancel \/ drained) /\ producer'.op = "idle"]_vars
    /\ [](producer_finished => <>(drained /\ producer.op # "waiting"))

\* `drained` is set while a wait_until_drained_or_cancel is in progress, the
\* cancel flag being clear and no output element having been replaced by
\* zero: the wait is about to return.
C23_Witness ==
    /\ drained /\ ~cancel
    /\ producer.op = "waiting"
    /\ ~callback.running /\ callback.left = 0
    /\ underrun_samples = 0
    /\ capacity > 1

(***************************************************************************)
(* Properties of the device callback.                                      *)
(***************************************************************************)
\* One output element written by the callback: the oldest queued sample
\* leaves the queue for it, or, the queue being empty, it is one more
\* element written as 0.0 and the underrun counter is incremented by one.
OutputElement ==
    (callback'.left = callback.left - 1) =>
        IF queue # <<>>
        THEN /\ queue' = Tail(queue)
             /\ callback'.zeros = callback.zeros
             /\ underrun_samples' = underrun_samples
        ELSE /\ queue' = queue
             /\ callback'.zeros = callback.zeros + 1
             /\ underrun_samples' = underrun_samples + 1

\* C24: a running callback always has a step to take, whatever the queue
\* holds; each output element is the oldest queued sample or, when the queue
\* is empty, 0.0 with the underrun counter incremented by exactly one; the
\* counter equals the number of output elements replaced by 0.0 and never
\* decreases.
C24_CallbackNeverWaits ==
    /\ [](callback.running => ENABLED (CallbackSample \/ CallbackEnd))
    /\ [](underrun_samples = callback.zeros)
    /\ [][OutputElement /\ underrun_samples' >= underrun_samples]_vars

\* The one sample pushed so far has been popped for an output element and
\* a later element, the queue being empty, has been written as zero; the
\* running callback has an element still to write.
C24_Witness ==
    /\ callback.running
    /\ callback.left = 1
    /\ callback.zeros = 1
    /\ underrun_samples = 1
    /\ queue = <<>>
    /\ Len(producer.kept) = 1

(***************************************************************************)
(* Properties of the offline scan.                                         *)
(***************************************************************************)
ScanReturned == scan.pc = "returned"

outcome_of(stem) == scan_workers[stem].outcome

EveryWorkerSucceeded == \A stem \in StemNames : outcome_of(stem) = "ok"

\* The place in CANONICAL_STEMS of the first stem whose worker did not end
\* with a profile.
FirstFailed ==
    CHOOSE i \in DOMAIN CANONICAL_STEMS :
        /\ outcome_of(CANONICAL_STEMS[i]) # "ok"
        /\ \A j \in 1..(i - 1) : outcome_of(CANONICAL_STEMS[j]) = "ok"

\* C25, as amended: a scan that has returned has returned Ok exactly if the
\* worker of every required stem succeeded, and then with a profile for
\* exactly the required stems; a scan that spawned every worker and returned
\* an error has returned the outcome of the first worker, in the order of the
\* stems, that did not succeed: the error that worker returned, or
\* ThreadJoin if that worker panicked.
C25_FirstFailedWorkerDecides ==
    ScanReturned =>
        /\ scan.result = "Ok" <=> EveryWorkerSucceeded
        /\ scan.result = "Ok" => scan.profiles = StemNames
        /\ (scan.result = "Err" /\ scan.stem_paths = StemNames) =>
              LET stem == CANONICAL_STEMS[FirstFailed] IN
              scan.error = IF outcome_of(stem) = "err" THEN StemError(stem)
                           ELSE ThreadJoin

\* A scan has returned the error of the Music worker although the Effects
\* worker panicked.
C25_Witness ==
    /\ ScanReturned
    /\ outcome_of("DX") = "ok"
    /\ outcome_of("Music") = "err"
    /\ outcome_of("Effects") = "panic"
    /\ scan.error = StemError("Music")

\* C25 as stated: Ok exactly if every worker succeeded; any worker's error
\* makes scan return an error of one of the workers, and any worker's panic
\* makes scan return ThreadJoin.
C25_ErrorAndPanicBothSurface ==
    ScanReturned =>
        /\ scan.result = "Ok" <=> EveryWorkerSucceeded
        /\ scan.result = "Ok" => scan.profiles = StemNames
        /\ scan.stem_paths = StemNames =>
              /\ (\E stem \in StemNames : outcome_of(stem) = "err") =>
                    \E stem \in StemNames :
                        outcome_of(stem) = "err" /\ scan.error = StemError(stem)
              /\ (\E stem \in StemNames : outcome_of(stem) = "panic") =>
                    scan.error = ThreadJoin

\* The events of one stem in the order on_event got them: StemStarted first
\* and only first, nothing after a StemFinished, and the seconds_scanned of
\* the StemProgress events strictly increasing.
EventsOrdered(stem) ==
    LET got == delivered[stem] IN
    /\ \A i \in DOMAIN got :
          /\ got[i].kind = "StemStarted" <=> i = 1
          /\ got[i].kind = "StemFinished" => i = Len(got)
    /\ \A i, j \in DOMAIN got :
          (/\ i < j
           /\ got[i].kind = "StemProgress"
           /\ got[j].kind = "StemProgress")
              => got[i].seconds_scanned < got[j].seconds_scanned

FinishedOnlyOnSuccess ==
    \A stem \in StemNames :
        (\E i \in DOMAIN delivered[stem] :
            delivered[stem][i].kind = "StemFinished") => outcome_of(stem) = "ok"

\* Once scan has returned no event is left in the channel.
AllDelivered == ScanReturned => channel = <<>>

\* C26: for each stem the events delivered to on_event are StemStarted, then
\* StemProgress events with strictly increasing seconds_scanned, then at most
\* one StemFinished, which is delivered only if the stem's worker succeeded;
\* and every event the workers sent has been delivered when scan returns.
C26_EventsOrderedAndDelivered ==
    /\ \A stem \in StemNames : EventsOrdered(stem)
    /\ FinishedOnlyOnSuccess
    /\ AllDelivered

C28_WorkersJoinedOnReturn ==
    ScanReturned =>
        \A stem \in Spawned :
            scan_workers[stem].pc = "done" /\ stem \in scan.joined

(***************************************************************************)
(* Properties of the offline scan command.                                 *)
(***************************************************************************)
CommandReturned == scan.command.state \in {"Ok", "Err"}

Reported == {REPORTED_STEMS[i] : i \in DOMAIN REPORTED_STEMS}

\* C30: the stems scan produces profiles for cover the stems
\* generate_static_map reads, and a command whose scan had every worker
\* succeed returns Ok.
C30_CommandReturnsEveryProfile ==
    /\ scan.result = "Ok" => Reported \subseteq scan.profiles
    /\ (CommandReturned /\ EveryWorkerSucceeded) => scan.command.state = "Ok"

(***************************************************************************)
(* Properties of scan_stem.                                                *)
(***************************************************************************)
\* The capture thresholds k * r / p, k >= 0, that lie in (from, to], and the
\* threshold 0 when from is 0.
Thresholds(from, to, rate, points) ==
    {k \in 0..(MaxScanSamples * points) :
        /\ k * rate <= to * points
        /\ k * rate > from * points \/ from = 0}

\* C29: the momentary and short_term series of a stem always have the same
\* length; each packet adds one reading of each for every multiple of r / p
\* the count of decoded samples has reached with it (0 being the first); a
\* stem of N > 0 decoded samples has floor(N * p / r) + 1 points; and 10 s of
\* samples at p = 2 give 19 to 21 points.
C29_CapturePoints ==
    /\ [](Len(stem_scan.momentary) = Len(stem_scan.short_term))
    /\ [][stem_scan.pc = "loop" /\ stem_scan'.pc = "loop" =>
            Len(stem_scan'.momentary) - Len(stem_scan.momentary)
              = Cardinality(Thresholds(stem_scan.processed_samples,
                                       stem_scan'.processed_samples,
                                       stem_scan.sample_rate,
                                       stem_scan.points_per_second))]_vars
    /\ []((stem_scan.result # "Err" /\ stem_scan.processed_samples > 0) =>
            Len(stem_scan.momentary)
              = (stem_scan.processed_samples * stem_scan.points_per_second)
                    \div stem_scan.sample_rate + 1)
    /\ []((/\ stem_scan.result = "Ok"
           /\ stem_scan.points_per_second = 2
           /\ stem_scan.processed_samples = 10 * stem_scan.sample_rate) =>
            Len(stem_scan.momentary) \in 19..21)

\* A stem of 10 s at sample rate 2 scanned at 2 points per second has
\* returned 21 points.
C29_Witness ==
    /\ stem_scan.result = "Ok"
    /\ stem_scan.points_per_second = 2
    /\ stem_scan.sample_rate = 2
    /\ stem_scan.processed_samples = 20
    /\ Len(stem_scan.momentary) = 21

(***************************************************************************)
(* Properties of resolve_required_stems.                                   *)
(***************************************************************************)
\* The keys of the caller's map that are the name but for the case.
KeysNamed(name) ==
    {key \in DOMAIN resolve.stem_paths :
        to_ascii_lowercase(key) = to_ascii_lowercase(name)}

\* The keys the stem is to be read from: those that are its canonical name
\* if there is one, and otherwise those that are its first alias with a key.
KeysFor(stem) ==
    IF KeysNamed(StemText[stem]) # {} THEN KeysNamed(StemText[stem])
    ELSE LET with_key == {i \in DOMAIN aliases(stem) :
                            KeysNamed(aliases(stem)[i]) # {}}
         IN  IF with_key = {} THEN {}
             ELSE KeysNamed(aliases(stem)[CHOOSE i \in with_key :
                                            \A j \in with_key : i <= j])

\* The required stems before the one the loop is at.
StemsBefore == {CANONICAL_STEMS[i] : i \in 1..(resolve.next - 1)}

\* C31: every path resolve_required_stems has resolved for a stem is the
\* trimmed, non-empty path of a key that is the stem's canonical name but for
\* the case, or, when no key is, of a key that is the first of its aliases
\* any key matches; it returns Ok with one path for each required stem, or
\* MissingStemPath naming the first required stem for which no such key
\* exists or the path looked up is empty after trimming.
C31_ResolveRequiredStems ==
    /\ DOMAIN resolve.resolved = (StemsBefore \cap StemNames)
    /\ \A stem \in DOMAIN resolve.resolved :
          /\ resolve.resolved[stem] # <<>>
          /\ \E key \in KeysFor(stem) :
                resolve.resolved[stem] = trim(resolve.stem_paths[key])
    /\ resolve.result = "Ok" => DOMAIN resolve.resolved = StemNames
    /\ resolve.result = "Err" =>
          LET stem == CANONICAL_STEMS[resolve.next] IN
          /\ resolve.error = MissingStemPath(stem)
          /\ \/ KeysFor(stem) = {}
             \/ \E key \in KeysFor(stem) : trim(resolve.stem_paths[key]) = <<>>

\* A call has returned Ok with the DX path read from the key "DX_RAW", the
\* second alias, and the Music path from the key "music".
C31_Witness ==
    /\ resolve.result = "Ok"
    /\ resolve.resolved["DX"] = <<"D", "X", "_", "R", "A", "W">>
    /\ resolve.resolved["Music"] = <<"m", "u", "s", "i", "c">>
    /\ <<"b", "a", "c", "k", "g", "r", "o", "u", "n", "d", "_", "r", "a", "w">> \in DOMAIN resolve.stem_paths

(***************************************************************************)
(* Properties of the Lissajous points.                                     *)
(***************************************************************************)
\* C32: a dsp-frame event carries at most 128 points, and they are every
\* max(1, len / 128)-th point of the frame's points, the first one first.
C32_AtMost128Points ==
    /\ Len(lissajous.lissajous_points) <= LISSAJOUS_MAX_POINTS
    /\ \A k \in DOMAIN lissajous.lissajous_points :
          lissajous.lissajous_points[k] = (k - 1) * lissajous.step + 1

(***************************************************************************)
(* Properties of the timestamps.                                           *)
(***************************************************************************)
\* C33: every dsp-frame event carries the timestamp
\* (frame_index - 1) * frame_size / sample_rate; the first frame event of a
\* stream carries 0, and of two frame events of a stream the later one has
\* the larger timestamp.
C33_TimestampOfFrameStart ==
    \A w \in Streams :
        LET f == FrameEvents(w) IN
        /\ \A i \in DOMAIN f :
              /\ f[i].timestamp_secs.den = DSP_SAMPLE_RATE
              /\ f[i].timestamp_secs.num = (f[i].value - 1) * DSP_FRAME_SIZE
        /\ Len(f) > 0 => f[1].timestamp_secs.num = 0
        /\ \A i, j \in DOMAIN f :
              i < j => f[i].timestamp_secs.num < f[j].timestamp_secs.num

\* A stream has emitted its first and its third frame, the second one having
\* been throttled: the timestamps are 0 and 2 * 2048 / 48000.
C33_Witness ==
    \E w \in Streams :
        LET f == FrameEvents(w) IN
        /\ Len(f) = 2
        /\ f[1].value = 1 /\ f[1].timestamp_secs.num = 0
        /\ f[2].value = 3 /\ f[2].timestamp_secs.num = 2 * DSP_FRAME_SIZE

(***************************************************************************)
(* Properties of the resamplers.                                           *)
(***************************************************************************)
\* The outputs of the last call are one for each position p, p + step, ...
\* with p + 1 < residual length, and the call stopped at the first position
\* that is not.
OutputsInsideResidual ==
    LET r == resampler IN
    /\ \A i \in DOMAIN r.output :
          /\ r.output[i] + r.output_rate < r.held * r.output_rate
          /\ i > 1 => r.output[i] = r.output[i - 1] + r.input_rate
    /\ (r.pc = "ready" /\ r.held >= 2) =>
          r.position + r.consumed * r.output_rate + r.output_rate
              >= r.held * r.output_rate

\* C34: a call of process emits one output for each position inside the
\* residual, and then drops no more samples than the residual holds, the
\* position staying at or above 0.
C34_DropsOnlyWhatItHolds ==
    /\ OutputsInsideResidual
    /\ resampler.consumed <= resampler.held
    /\ resampler.position >= 0
    /\ resampler.pc # "panicked"

(***************************************************************************)
(* Properties of one stem decoder.                                         *)
(***************************************************************************)
\* The packets the last call read, in order.
PacketsRead ==
    SubSeq(stem_decoder.file, stem_decoder.ret.first, stem_decoder.next - 1)

SeekSucceeded == stem_decoder.ret.call = "seek" /\ stem_decoder.ret.kind = "ok"

\* C35: the eof flag of a stem, once set, stays set until seek is called;
\* is_finished is true exactly when eof is set and no sample is pending; a
\* seek that succeeded has left the queue and the residual of the resampler
\* empty, the position of the resampler 0 and eof false.
C35_EofUntilSeek ==
    /\ [][(stem_decoder.eof /\ ~stem_decoder'.eof)
              => stem_decoder'.ret.call = "seek"]_vars
    /\ [](is_finished(stem_decoder)
              <=> (stem_decoder.eof /\ Len(stem_decoder.pending_samples) = 0))
    /\ [](SeekSucceeded =>
              /\ stem_decoder.pending_samples = <<>>
              /\ stem_decoder.source = 0
              /\ stem_decoder.position = 0
              /\ ~stem_decoder.eof
              /\ ~is_finished(stem_decoder))

\* A seek succeeded on a stem that had reached the end of its file with
\* samples pending, a residual and a position inside it.
C35_Witness ==
    /\ SeekSucceeded
    /\ stem_decoder.ret.before.eof
    /\ stem_decoder.ret.before.pending > 0
    /\ stem_decoder.ret.before.source > 0
    /\ stem_decoder.ret.before.position > 0

\* C36: a packet whose decode fails with DecodeError is skipped. A call of
\* fill_until returns an error exactly when the last packet it read is an
\* error other than that and other than an unexpected end of file; it sets
\* eof only at a truncated packet or past the last packet; and it stops
\* after a packet it skipped only when the file ends there.
C36_DecodeErrorSkipped ==
    stem_decoder.ret.call = "fill_until" =>
        LET read == PacketsRead
            last == read[Len(read)].kind
            st == stem_decoder
        IN  /\ st.ret.kind = "err" <=>
                  (Len(read) > 0 /\ last \in {"read_error", "codec_error"})
            /\ (st.eof /\ ~st.ret.before.eof) =>
                  \/ Len(read) > 0 /\ last = "truncated"
                  \/ st.next = Len(st.file) + 1 /\ st.ret.kind = "ok"
            /\ (Len(read) > 0 /\ last = "decode_error") =>
                  /\ st.ret.kind = "ok"
                  /\ st.eof
                  /\ st.next = Len(st.file) + 1
            /\ \A i \in DOMAIN read :
                  (read[i].kind = "decode_error" /\ i < Len(read)) =>
                      \A j \in DOMAIN st.pending_samples :
                          st.pending_samples[j] # st.ret.first + i - 1

\* fill_until skipped a packet of DecodeError, decoded the packet after it
\* and returned Ok with the samples of that packet pending and eof not set.
C36_Witness ==
    /\ stem_decoder.ret.call = "fill_until"
    /\ stem_decoder.ret.kind = "ok"
    /\ ~stem_decoder.eof
    /\ Len(PacketsRead) = 2
    /\ PacketsRead[1].kind = "decode_error"
    /\ PacketsRead[2].kind = "audio"
    /\ stem_decoder.pending_samples # <<>>
    /\ \A j \in DOMAIN stem_decoder.pending_samples :
           stem_decoder.pending_samples[j] = stem_decoder.next - 1

SubstitutesSilence(d) ==
    LET filled == FillStems(d, FrameSize, "none")
        popped == [s \in STEM_IDS |-> pop_frame(filled[s], FrameSize)]
    IN  /\ ~(\A s \in STEM_IDS : is_finished(filled[s]))
        /\ \A s \in STEM_IDS : popped[s].samples = <<>>
        /\ ~(\A s \in STEM_IDS : is_finished(popped[s].stem))

\* In no state a decoder reaches does its next read_frame substitute
\* silence: a stem that pops nothing after fill_until(frame_size) returned
\* Ok has its eof flag set and nothing pending, so it is finished.
SilenceBranchUnreached == ~SubstitutesSilence(stems)

RuntimeGainsWithinUnit ==
    \A s \in STEM_IDS :
        stem_runtime_gains[s] >= 0 /\ stem_runtime_gains[s] <= UnitGain

WithinUnit(g) == g >= 0 /\ g <= GainOne

\* C39: a runtime gain that is between 0 and 1.0 and is moved toward a target
\* between 0 and 1.0, by any step, is between 0 and 1.0 after every sample
\* of a call, whatever the target was changed to before the call.
C39_GainWithinUnit ==
    [][(WithinUnit(current_gain) /\ WithinUnit(target_gain)) =>
          /\ WithinUnit(current_gain')
          /\ last_call' = "ramp" =>
                \A i \in DOMAIN buffer' : WithinUnit(buffer'[i])]_vars

\* A gain closer to its target, 0 or 1.0, than one step was moved onto the
\* target by a sample.
C39_Witness ==
    /\ last_call = "step"
    /\ WithinUnit(previous_gain)
    /\ previous_gain # current_gain
    /\ Abs(target_gain - previous_gain) < step
    /\ current_gain = target_gain
    /\ target_gain \in {0, GainOne}

(***************************************************************************)
(* Properties of the frames read to the end of the files.                  *)
(***************************************************************************)
\* The length of the longest stem.
LongestStem ==
    LET lens == {stems[s].len : s \in STEM_IDS}
    IN  CHOOSE n \in lens : \A m \in lens : m <= n

\* What frame k holds of stem s when every sample of s is returned once, in
\* order, and zeros follow up to the length of the longest stem: the samples
\* (k - 1) * FrameSize + 1 .. k * FrameSize, at the gain 1.0.
ExpectedBuffer(s, k) ==
    LET start == (k - 1) * FrameSize
        n == Min(FrameSize, LongestStem - start)
    IN  [i \in 1..n |-> IF start + i <= stems[s].len
                        THEN (start + i) * UnitGain ELSE 0]

\* C38: with all gains at 1.0, the k-th frame read_frame returns holds of
\* each stem the k-th run of frame_size samples of that stem, zeros standing
\* for the samples a shorter stem lacks; None comes only when the frames
\* returned cover the longest stem; and background_raw is the sum, sample by
\* sample, of the music, foley, sfx and ambience buffers.
C38_FramesAreTheStems ==
    reads_only =>
        /\ ret.kind = "frame" =>
              LET f == ret.frame IN
              /\ \A s \in STEM_IDS :
                    FrameBuffer(f, s) = ExpectedBuffer(s, frames_returned)
              /\ Len(f.dx_raw) > 0
              /\ f.dialogue_raw = f.dx_raw
              /\ f.background_raw =
                    [i \in 1..Len(f.dx_raw) |->
                        f.music_raw[i] + f.foley_raw[i] + f.sfx_raw[i]
                            + f.ambience_raw[i]]
        /\ ret.kind = "none" =>
              /\ frames_returned * FrameSize >= LongestStem
              /\ (frames_returned - 1) * FrameSize < LongestStem \/ frames_returned = 0

\* Dialogue of three samples and music of one were read to None in two
\* frames: the music buffer was padded in the first and all zeros in the
\* second.
C38_Witness ==
    /\ reads_only
    /\ ret.call = "read_frame" /\ ret.kind = "none"
    /\ frames_returned = 2
    /\ stems["dx"].len = 3
    /\ stems["music"].len = 1

(***************************************************************************)
(* Properties of total_frames.                                             *)
(***************************************************************************)
\* frame_index of stream w goes up by one when, and only when, its worker
\* passes from the analysis of a frame to the throttle; it is set to 0 when
\* the worker starts and changes at no other step.
CountsAnalysedFrames(w) ==
    /\ (pc[w] = "emit" /\ pc'[w] # "emit") => frame_index'[w] = frame_index[w] + 1
    /\ frame_index'[w] # frame_index[w] =>
          \/ pc[w] = "emit" /\ pc'[w] = "check"
          \/ pc[w] = "spawned" /\ frame_index'[w] = 0

\* C40: total_frames of dsp-complete is the frame_index of the last frame
\* the worker read and analysed, which counts those frames whether or not
\* their events were emitted: it is at least the number of dsp-frame events
\* of the stream and at least the frame_index of each of them.
C40_TotalFramesCountsAll ==
    /\ [][\A w \in Streams : CountsAnalysedFrames(w)]_vars
    /\ [](\A w \in Streams :
            \A total \in TotalFrames(w) :
               /\ total = frame_index[w]
               /\ total >= Count(w, "dsp-frame")
               /\ \A i \in DOMAIN FrameEvents(w) : total >= FrameEvents(w)[i].value)

\* A stream of three frames, the second of them throttled, completed with
\* total_frames 3 after two dsp-frame events.
C40_Witness ==
    \E w \in Streams :
        /\ TotalFrames(w) = {3}
        /\ Count(w, "dsp-frame") = 2
        /\ FrameEvents(w)[2].value = 3

====
